---- MODULE Spec2Model ----
(***************************************************************************)
(* Model of the Safety Deliberation Engine of tripartite_agi_complete.py:  *)
(* the Undeliberable Registry, the Embodiment Layer's command gate, the    *)
(* Veto Authority, the Committee and the orchestrating deliberation cycle. *)
(*                                                                         *)
(* Number representation (the code uses Python floats; the model uses      *)
(* exact decimal fixed point):                                             *)
(*   speed, volume              tenths                                     *)
(*   force, alert level         units                                      *)
(*   confidence, uncertainty, danger, distress   hundredths                *)
(*   positions                  tenths of a metre                          *)
(*   lethal probability         1/10000                                    *)
(*   harm scores                1/200,000,000                              *)
(*   conflict severity          1/SevOne                                   *)
(*   weights, aspect confidence 1/10000; effective votes 1/10,000,000      *)
(* Strings are kept as strings; "keyword in text" tests are answered by    *)
(* Sub(text), the set of the code's keywords that occur in text.           *)
(***************************************************************************)
EXTENDS Integers, Sequences, FiniteSets, TLC

VARIABLES
    environment,      \* EmbodimentLayer._environment
    entities,         \* EmbodimentLayer._detected_entities (insertion order)
    motor,            \* EmbodimentLayer._motor_state
    halted,           \* EmbodimentLayer._halted
    executed,         \* EmbodimentLayer._commands_executed
    rejected,         \* EmbodimentLayer._commands_rejected
    violations,       \* EmbodimentLayer._undeliberable_violations
    weights,          \* ConsciousLayer._personality_weights
    confidence,       \* Aspect._confidence, per aspect
    tiebreaker_index, \* ConsciousLayer._tiebreaker_index
    history,          \* SubconsciousLayer._incident_history
    cycle_count,      \* TripartiteAGI._cycle_count
    last_package,     \* TripartiteAGI._last_package
    lastExec,         \* the last execute_commands call: arguments, pre-state, result
    lastCycle,        \* the last process_sensor_update call: its steps and result
    lastVeto,         \* the last direct evaluate_for_veto call: arguments and decision
    lastCheck,        \* the last direct check_all call: arguments and verdict
    lastOp,           \* the operation performed last
    calls,            \* number of operations performed so far
    pc,               \* per caller: position inside process_sensor_update
    frame,            \* per caller: locals of its process_sensor_update call
    lastCall          \* the last direct call of a function: arguments and result

vars == <<environment, entities, motor, halted, executed, rejected, violations,
          weights, confidence, tiebreaker_index, history, cycle_count,
          last_package, lastExec, lastCycle, lastVeto, lastCheck, lastOp, calls,
          pc, frame, lastCall>>

-----------------------------------------------------------------------------
(* Bounds of the model *)

MaxCalls == 3
HistorySize == 2

-----------------------------------------------------------------------------
(* Generic helpers *)

Max(a, b) == IF a >= b THEN a ELSE b
Min(a, b) == IF a <= b THEN a ELSE b

Range(s) == {s[i] : i \in 1..Len(s)}

\* max(S, default = 0) for a set of non-negative numbers
SetMax(S) == CHOOSE m \in S \cup {0} : \A x \in S : x <= m

SeqMax(s) == SetMax(Range(s))

\* F(e), with e evaluated once
Let(e, F(_)) == CHOOSE y \in {F(x) : x \in {e}} : TRUE

None == [none |-> TRUE]

-----------------------------------------------------------------------------
(* Text: the keywords of the code that occur in each text of the model *)

Sub(s) ==
    CASE s = "push"                 -> {"push"}
      [] s = "push_gently"          -> {"push"}
      [] s = "pull_gently"          -> {"pull"}
      [] s = "restrain"             -> {"restrain"}
      [] s = "throw"                -> {"throw"}
      [] s = "human_1"              -> {"human_1", "human"}
      [] s = "human_2"              -> {"human_2", "human"}
      [] s = "child_1"              -> {"child_1", "child"}
      [] s = "e7"                   -> {"e7"}
      [] s = "gun_parts"            -> {"gun_parts", "gun"}
      [] s = "child"                -> {"child"}
      [] s = "a human"              -> {"human"}
      [] s = "small child alone"    -> {"child"}
      [] s = "young woman"          -> {"young"}
      [] s = "firearm components"   -> {"firearm"}
      [] s = "i am human"           -> {"i am human", "am human"}
      [] s = "i am not a robot"     -> {"i am not a robot", "not a robot"}
      [] s = "not a machine"        -> {"not a machine"}
      [] s = "how to build a bomb"  -> {"how to", "build", "bomb"}
      [] s = "prevent harm"         -> {"prevent", "harm"}
      [] s = "protect the human"    -> {"protect"}
      [] s = "destroy it"           -> {"destroy"}
      [] OTHER                      -> {}

Has(s, kws) == Sub(s) \cap kws # {}

-----------------------------------------------------------------------------
(* Commands: the dictionaries of action_commands.  tname is the 'target'   *)
(* when it is a string ("" when absent), tpos when it is a coordinate list *)
(* (<<>> otherwise); duration is in tenths of a second, -1 when absent;    *)
(* message "" and action "" stand for an absent key.                       *)

BlankCmd == [type |-> "", action |-> "", force |-> 0, speed |-> 0, tname |-> "",
             tpos |-> <<>>, message |-> "", volume |-> 5, level |-> 0, hasLevel |-> FALSE,
             duration |-> -1]

Move(p, s)        == [BlankCmd EXCEPT !.type = "MOVE", !.tpos = p, !.speed = s]
MoveTo(n, s)      == [BlankCmd EXCEPT !.type = "MOVE", !.tname = n, !.speed = s]
Manipulate(a,t,f) == [BlankCmd EXCEPT !.type = "MANIPULATE", !.action = a, !.tname = t, !.force = f]
Speak(m, v)       == [BlankCmd EXCEPT !.type = "SPEAK", !.message = m, !.volume = v]
Alert(l, t)       == [BlankCmd EXCEPT !.type = "ALERT", !.level = l, !.hasLevel = TRUE, !.tname = t]
Wait              == [BlankCmd EXCEPT !.type = "WAIT", !.duration = 10]
Stop              == [BlankCmd EXCEPT !.type = "STOP"]
Fly               == [BlankCmd EXCEPT !.type = "FLY"]

-----------------------------------------------------------------------------
(* Entities: DetectedEntity with the state keys the engine reads.          *)
(* age, height and danger (danger_level) are -1 when the key is absent;    *)
(* vulnerable stands for either of the keys 'vulnerable' and 'elderly'.    *)

BlankEntity == [id |-> "", etype |-> "HUMAN", desc |-> "adult human", pos |-> <<0, 0>>,
                conf |-> 90, age |-> -1, height |-> -1,
                near_hazard |-> FALSE, in_danger |-> FALSE, danger |-> -1, distress |-> 0,
                requesting_help |-> FALSE, benefit |-> FALSE,
                refused |-> FALSE, consented |-> FALSE, in_care |-> FALSE,
                requested_help |-> FALSE, vulnerable |-> FALSE, object_type |-> ""]

-----------------------------------------------------------------------------
(* UndeliberableRegistry *)

LETHAL_PROBABILITY_THRESHOLD == 6500

WEAPON_KEYWORDS == {"gun", "firearm", "rifle", "pistol", "bomb", "explosive",
                    "grenade", "poison", "missile", "ammo"}

ResponseOf(name) == IF name = "human_override" THEN "halt" ELSE "hard_stop"

_check_human_override(env) ==
    env.human_override \/ env.stop_commanded \/ env.emergency_stop

Humans(ents) == SelectSeq(ents, LAMBDA e : e.etype = "HUMAN")

DistSq(p, q) == (p[1] - q[1]) * (p[1] - q[1]) + (p[2] - q[2]) * (p[2] - q[2])

\* a MoveHumanProb without the rule for a target near the human
MoveHumanProb_speed_only(cmd, human) ==
    IF cmd.speed > 10 THEN 3000 + (cmd.speed - 10) * 300 ELSE 0

\* contribution of one human to a MOVE command's probability
MoveHumanProb(cmd, human) ==
    Max(IF cmd.speed > 10 THEN 3000 + (cmd.speed - 10) * 300 ELSE 0,
        IF cmd.tpos # <<>> /\ DistSq(cmd.tpos, human.pos) < 100 /\ cmd.speed > 5
        THEN 5000 + cmd.speed * 200 ELSE 0)

\* contribution of one human to a MANIPULATE command's probability
ManipHumanProb(cmd, human) ==
    IF human.id \in Sub(cmd.tname) \/ "human" \in Sub(cmd.tname)
    THEN Max(4000 + cmd.force * 800,
             IF Has(cmd.action, {"push", "shove", "strike", "grab", "restrain"})
             THEN 6000 + cmd.force * 500 ELSE 0)
    ELSE 0

MaxOver(Op(_, _), cmd, hs) == SetMax({Op(cmd, hs[i]) : i \in 1..Len(hs)})

CmdLethalProb(cmd, humans, env) ==
    LET near_traffic   == "traffic" \in env.hazards
        near_heights   == "heights" \in env.hazards
        near_machinery == "machinery" \in env.hazards
    IN  CASE cmd.type = "MOVE" ->
               LET p1 == MaxOver(MoveHumanProb, cmd, humans)
                   p2 == IF near_traffic /\ cmd.speed > 5 THEN Max(p1, 4000) ELSE p1
               IN  IF near_heights THEN Max(p2, 5000) ELSE p2
          [] cmd.type = "MANIPULATE" ->
               LET p1 == MaxOver(ManipHumanProb, cmd, humans)
                   p2 == IF near_machinery THEN p1 + 2000 ELSE p1
               IN  IF near_heights THEN p2 + 3000 ELSE p2
          [] cmd.type = "ALERT" ->
               IF cmd.level >= 3 /\ (near_heights \/ near_traffic) THEN 3000 ELSE 0
          [] OTHER -> 0

MaxCmdProb(cmds, humans, env) ==
    SetMax({CmdLethalProb(cmds[i], humans, env) : i \in 1..Len(cmds)})

RECURSIVE ConfidenceAdjust(_, _)
ConfidenceAdjust(p, hs) ==
    IF hs = <<>> THEN p
    ELSE Let(IF Head(hs).conf < 70 THEN Min(10000, p + (70 - Head(hs).conf) * 15) ELSE p,
             LAMBDA q : ConfidenceAdjust(q, Tail(hs)))

UncertaintyAdjust(p, env) ==
    IF env.uncertainty > 30 THEN Min(10000, p + env.uncertainty * 20) ELSE p

_check_lethal_action(cmds, ents, env) ==
    Let(Humans(ents), LAMBDA humans :
        IF humans = <<>> THEN 0
        ELSE Let(MaxCmdProb(cmds, humans, env), LAMBDA p0 :
                 Let(UncertaintyAdjust(p0, env), LAMBDA p1 : ConfidenceAdjust(p1, humans))))

_is_child(e) ==
    \/ Has(e.desc, {"child", "kid", "infant", "baby", "toddler", "minor",
                    "juvenile", "young", "boy", "girl"})
    \/ (e.age # -1 /\ e.age < 18)
    \/ (e.height # -1 /\ e.height < 120)

ChildCmdHit(cmd, child, caregiver_present) ==
    /\ child.id \in Sub(cmd.tname) \/ Has(cmd.tname, {"child", "kid"})
    /\ \/ cmd.type = "MANIPULATE" /\ ~caregiver_present
       \/ cmd.type = "MANIPULATE"
          /\ (cmd.force > 2 \/ Has(cmd.action, {"push", "grab", "restrain", "pull"}))
       \/ cmd.type = "ALERT" /\ cmd.level >= 2
       \/ cmd.type = "MOVE" /\ cmd.speed > 10

_check_child_harm(cmds, ents) ==
    \E children \in {SelectSeq(ents, _is_child)} :
    \E caregivers \in {SelectSeq(ents, LAMBDA e : e.etype = "HUMAN" /\ ~_is_child(e))} :
        /\ children # <<>>
        /\ \E i \in 1..Len(cmds) : \E j \in 1..Len(children) :
               ChildCmdHit(cmds[i], children[j], caregivers # <<>>)

_is_weapon(e) == Has(e.desc, WEAPON_KEYWORDS) \/ Has(e.object_type, WEAPON_KEYWORDS)

_contains_weapon_instructions(text) ==
    /\ Has(text, {"how to", "build", "make", "construct", "assemble", "create",
                  "manufacture", "synthesize", "instructions"})
    /\ Has(text, WEAPON_KEYWORDS)

_check_weapon_assistance(cmds, ents) ==
    \E weapons \in {SelectSeq(ents, _is_weapon)} :
        \E i \in 1..Len(cmds) :
           \/ /\ cmds[i].type = "MANIPULATE"
              /\ \/ \E j \in 1..Len(weapons) : weapons[j].id \in Sub(cmds[i].tname)
                 \/ Has(cmds[i].tname, WEAPON_KEYWORDS)
           \/ cmds[i].type = "SPEAK" /\ _contains_weapon_instructions(cmds[i].message)

_check_identity_deception(cmds, env) ==
    \E i \in 1..Len(cmds) :
       /\ cmds[i].type = "SPEAK"
       /\ \/ Has(cmds[i].message, {"i am human", "i am a person", "i am a man",
                                   "i am a woman", "i'm human", "i'm a person",
                                   "i am not a robot", "i am not an ai",
                                   "i am not artificial"})
          \/ /\ env.identity_question_pending
             /\ Has(cmds[i].message, {"not a robot", "not an ai", "not artificial",
                                      "not a machine", "am human", "am a person"})

\* a check_all that tests the lethal action before the human override
check_all_lethal_first(cmds, ents, env) ==
    IF _check_lethal_action(cmds, ents, env) > LETHAL_PROBABILITY_THRESHOLD
    THEN "lethal_action"
    ELSE IF _check_human_override(env) THEN "human_override"
    ELSE IF _check_child_harm(cmds, ents) THEN "child_harm"
    ELSE IF _check_weapon_assistance(cmds, ents) THEN "weapon_assistance"
    ELSE IF _check_identity_deception(cmds, env) THEN "identity_deception"
    ELSE "none"

\* the name of the violated undeliberable, or "none"
check_all(cmds, ents, env) ==
    IF _check_human_override(env) THEN "human_override"
    ELSE IF _check_lethal_action(cmds, ents, env) > LETHAL_PROBABILITY_THRESHOLD
         THEN "lethal_action"
    ELSE IF _check_child_harm(cmds, ents) THEN "child_harm"
    ELSE IF _check_weapon_assistance(cmds, ents) THEN "weapon_assistance"
    ELSE IF _check_identity_deception(cmds, env) THEN "identity_deception"
    ELSE "none"

-----------------------------------------------------------------------------
(* GroundedHarmOntology.  Harm scores are integers in units of 1/200,000,000: *)
(* weight (1/100) x entity modifier (1/10) x context product (1/200,000).   *)

VETO_THRESHOLD == 80000000
CAUTION_THRESHOLD == 50000000
MeaningfulHarm == 10000000

Dims == {"physical", "psychological", "autonomy"}

\* get_dimension_weight, in hundredths
get_dimension_weight(dim, sev) ==
    CASE dim = "physical" ->
           (CASE sev = "FATAL" -> 100 [] sev = "GRIEVOUS" -> 90 [] sev = "SEVERE" -> 70
              [] sev = "SIGNIFICANT" -> 50 [] sev = "MODERATE" -> 30 [] sev = "MINOR" -> 10
              [] OTHER -> 30)
      [] dim = "psychological" ->
           (CASE sev = "FATAL" -> 95 [] sev = "GRIEVOUS" -> 85 [] sev = "SEVERE" -> 70
              [] sev = "SIGNIFICANT" -> 45 [] sev = "MODERATE" -> 25 [] sev = "MINOR" -> 8
              [] OTHER -> 30)
      [] dim = "autonomy" ->
           (CASE sev = "FATAL" -> 95 [] sev = "GRIEVOUS" -> 80 [] sev = "SEVERE" -> 60
              [] sev = "SIGNIFICANT" -> 40 [] sev = "MODERATE" -> 20 [] sev = "MINOR" -> 8
              [] OTHER -> 30)
      [] dim = "relational" ->
           (CASE sev = "FATAL" -> 90 [] sev = "GRIEVOUS" -> 75 [] sev = "SEVERE" -> 55
              [] sev = "SIGNIFICANT" -> 35 [] sev = "MODERATE" -> 20 [] sev = "MINOR" -> 7
              [] OTHER -> 30)
      [] dim = "financial" ->
           (CASE sev = "FATAL" -> 75 [] sev = "GRIEVOUS" -> 60 [] sev = "SEVERE" -> 45
              [] sev = "SIGNIFICANT" -> 30 [] sev = "MODERATE" -> 15 [] sev = "MINOR" -> 5
              [] OTHER -> 30)
      [] dim = "existential" ->
           (CASE sev = "FATAL" -> 70 [] sev = "GRIEVOUS" -> 50 [] sev = "SEVERE" -> 35
              [] sev = "SIGNIFICANT" -> 20 [] sev = "MODERATE" -> 10 [] sev = "MINOR" -> 3
              [] OTHER -> 30)
      [] dim = "reputational" ->
           (CASE sev = "FATAL" -> 70 [] sev = "GRIEVOUS" -> 55 [] sev = "SEVERE" -> 40
              [] sev = "SIGNIFICANT" -> 25 [] sev = "MODERATE" -> 12 [] sev = "MINOR" -> 4
              [] OTHER -> 30)
      [] OTHER -> 30

\* _build_entity_modifiers, in twentieths: every EntityType has an entry, so the
\* default of get_entity_modifier (1.0) is never taken
entity_modifier_20(etype) ==
    CASE etype = "HUMAN" -> 20 [] etype = "CHILD" -> 26 [] etype = "ANIMAL" -> 8
      [] etype = "SELF" -> 6 [] etype = "PROPERTY" -> 4 [] etype = "ENVIRONMENT" -> 5
      [] etype = "COLLECTIVE" -> 40 [] etype = "RELATIONSHIP" -> 12

\* get_entity_modifier, in tenths, for the entity types whose modifier is a whole
\* number of tenths (all but ENVIRONMENT, 0.25, which no detected entity of the
\* engine model has)
get_entity_modifier(etype) ==
    CASE etype \in {"HUMAN", "CHILD", "ANIMAL", "SELF", "PROPERTY", "COLLECTIVE",
                    "RELATIONSHIP"} -> entity_modifier_20(etype) \div 2

\* get_context_modifier: tenths, except vulnerability in twentieths
get_context_modifier(ctx, level) ==
    CASE ctx = "reversibility" ->
           (CASE level = "irreversible" -> 15 [] level = "difficult" -> 12
              [] level = "reversible" -> 10 [] level = "easily_reversible" -> 8
              [] level = "self_correcting" -> 6 [] OTHER -> 10)
      [] ctx = "consent" ->
           (CASE level = "explicit_refusal" -> 13 [] level = "no_consent" -> 10
              [] level = "implied_consent" -> 8 [] level = "explicit_consent" -> 4
              [] level = "explicit_consent_vulnerable" -> 7 [] OTHER -> 10)
      [] ctx = "relationship" ->
           (CASE level = "in_care" -> 14 [] level = "requested_help" -> 12
              [] level = "stranger" -> 10 [] level = "adversarial" -> 9 [] OTHER -> 10)
      [] ctx = "intent" ->
           (CASE level = "harm_intended" -> 15 [] level = "harm_foreseen" -> 10
              [] level = "harm_unforeseeable" -> 5 [] OTHER -> 10)
      [] ctx = "vulnerability" ->
           (CASE level = "highly_vulnerable" -> 26 [] level = "vulnerable" -> 23
              [] level = "normal" -> 20 [] level = "resilient" -> 18 [] OTHER -> 20)
      [] OTHER -> 10

\* get_exception_reduction for an exception with requires_all = True, three
\* requirements and cap max_reduction (in 1/200,000,000)
get_exception_reduction(max_reduction, met_count) ==
    IF met_count < 3 THEN 0 ELSE (max_reduction * met_count) \div 3

NecessityCap == 120000000
ConsentCap == 100000000

-----------------------------------------------------------------------------
(* UnconsciousLayer: monitor.  Conflict severities are integers in units   *)
(* of 1/SevOne: weight (1/100) x entity modifier (1/10) x confidence       *)
(* factor (1/1000).                                                        *)

SevOne == 1000000
CONFLICT_THRESHOLD == 300000
UNCERTAINTY_THRESHOLD == 400000
HighSeverity == 600000
ImprovementSeverity == 350000

_estimate_severity_from_danger(d) ==
    IF d > 90 THEN "FATAL" ELSE IF d > 75 THEN "GRIEVOUS" ELSE IF d > 60 THEN "SEVERE"
    ELSE IF d > 40 THEN "SIGNIFICANT" ELSE IF d > 20 THEN "MODERATE" ELSE "MINOR"

_estimate_severity_from_distress(d) ==
    IF d > 90 THEN "GRIEVOUS" ELSE IF d > 70 THEN "SEVERE"
    ELSE IF d > 50 THEN "SIGNIFICANT" ELSE IF d > 30 THEN "MODERATE" ELSE "MINOR"

_get_effective_entity_type(e) ==
    IF e.etype = "CHILD" THEN "CHILD"
    ELSE IF e.etype = "HUMAN"
            /\ \/ (e.age # -1 /\ e.age < 18)
               \/ Has(e.desc, {"child", "kid", "infant", "baby", "toddler", "minor",
                               "juvenile", "boy", "girl"})
               \/ (e.height # -1 /\ e.height < 120)
         THEN "CHILD"
    ELSE e.etype

Conflict(t, sev, drive) == [type |-> t, severity |-> sev, drive |-> drive]

_check_human_harm_indicators(e, etype) ==
    LET emod == get_entity_modifier(etype)
        danger == IF e.danger = -1 THEN 50 ELSE e.danger
    IN  (IF e.near_hazard \/ e.in_danger
         THEN <<Conflict("potential_physical_harm",
                         get_dimension_weight("physical", _estimate_severity_from_danger(danger))
                         * emod * (1000 + (100 - e.conf) * 3),
                         "REDUCE_HARM")>>
         ELSE <<>>)
        \o (IF e.distress > 30
            THEN <<Conflict("potential_psychological_harm",
                            get_dimension_weight("psychological",
                                                 _estimate_severity_from_distress(e.distress))
                            * emod * 1000,
                            "REDUCE_HARM")>>
            ELSE <<>>)
        \o (IF e.requesting_help
            THEN <<Conflict("autonomy_consideration",
                            get_dimension_weight("autonomy", "MODERATE") * emod * 1000,
                            "REDUCE_HARM")>>
            ELSE <<>>)

EntityConflicts(e) ==
    LET etype == _get_effective_entity_type(e)
    IN  IF etype \in {"HUMAN", "CHILD"} THEN _check_human_harm_indicators(e, etype)
        ELSE IF etype = "ANIMAL" /\ e.in_danger
             THEN <<Conflict("potential_harm",
                             (IF e.danger = -1 THEN 30 ELSE e.danger)
                             * get_entity_modifier("ANIMAL") * 1000,
                             "REDUCE_HARM")>>
        ELSE <<>>

RECURSIVE HarmConflicts(_)
HarmConflicts(ents) ==
    IF ents = <<>> THEN <<>> ELSE EntityConflicts(Head(ents)) \o HarmConflicts(Tail(ents))

RECURSIVE ImproveConflicts(_)
ImproveConflicts(ents) ==
    IF ents = <<>> THEN <<>>
    ELSE (IF Head(ents).etype = "HUMAN" /\ Head(ents).benefit /\ Head(ents).conf > 60
          THEN <<Conflict("improvement_opportunity", ImprovementSeverity, "IMPROVE")>>
          ELSE <<>>)
         \o ImproveConflicts(Tail(ents))

\* aggregate uncertainty, in 1/SevOne
AggregateUncertainty(ents, env) ==
    LET entity_max == SetMax({IF ents[i].conf < 70 THEN 100 - ents[i].conf ELSE 0 :
                                i \in 1..Len(ents)})
    IN  (entity_max * 6 + env.uncertainty * 4) * 1000

MonitorConflicts(ents, env) ==
    Let(AggregateUncertainty(ents, env), LAMBDA agg :
        HarmConflicts(ents)
        \o (IF agg > UNCERTAINTY_THRESHOLD
            THEN <<Conflict("uncertainty", agg, "UNDERSTAND")>> ELSE <<>>)
        \o ImproveConflicts(ents))

\* a monitor that needs a severity above CONFLICT_THRESHOLD
monitor_above_threshold(ents, env) ==
    Let(MonitorConflicts(ents, env), LAMBDA conflicts :
        LET drives == {conflicts[i].drive : i \in 1..Len(conflicts)}
            max_severity == SetMax({conflicts[i].severity : i \in 1..Len(conflicts)})
        IN  IF max_severity <= CONFLICT_THRESHOLD THEN None
            ELSE [none |-> FALSE,
                  trigger_type |-> IF "REDUCE_HARM" \in drives THEN "conflict"
                                   ELSE "uncertainty",
                  drives |-> drives,
                  severity |-> max_severity,
                  certainty |-> SevOne - AggregateUncertainty(ents, env),
                  entities |-> ents,
                  conflicts |-> conflicts])

\* the Impetus, or None when no deliberation is needed
monitor(ents, env) ==
    Let(MonitorConflicts(ents, env), LAMBDA conflicts :
        LET drives == {conflicts[i].drive : i \in 1..Len(conflicts)}
            max_severity == SetMax({conflicts[i].severity : i \in 1..Len(conflicts)})
        IN  IF max_severity < CONFLICT_THRESHOLD THEN None
            ELSE [none |-> FALSE,
                  trigger_type |-> IF "REDUCE_HARM" \in drives THEN "conflict"
                                   ELSE "uncertainty",
                  drives |-> drives,
                  severity |-> max_severity,
                  certainty |-> SevOne - AggregateUncertainty(ents, env),
                  entities |-> ents,
                  conflicts |-> conflicts])

-----------------------------------------------------------------------------
(* UnconsciousLayer: veto authority *)

\* index of the first entity satisfying P, 0 when there is none
RECURSIVE FirstFrom(_, _, _)
FirstFrom(P(_), ents, i) ==
    IF i > Len(ents) THEN 0 ELSE IF P(ents[i]) THEN i ELSE FirstFrom(P, ents, i + 1)

_determine_context_modifiers(action, ents) ==
    Let(FirstFrom(LAMBDA e : e.refused \/ e.consented, ents, 1), LAMBDA ic :
    Let(FirstFrom(LAMBDA e : e.in_care \/ e.requested_help, ents, 1), LAMBDA ir :
    Let(FirstFrom(LAMBDA e : _get_effective_entity_type(e) = "CHILD" \/ e.vulnerable,
                  ents, 1), LAMBDA iv :
        [reversibility |->
            IF Has(action.description, {"destroy", "kill", "delete", "permanent"})
            THEN "irreversible"
            ELSE IF \E i \in 1..Len(action.commands) :
                       action.commands[i].type \in {"SPEAK", "DISPLAY", "ALERT", "WAIT", "ROTATE"}
                 THEN "easily_reversible"
            ELSE "reversible",
         consent |->
            IF ic = 0 THEN "no_consent"
            ELSE IF ents[ic].refused THEN "explicit_refusal"
            ELSE IF _get_effective_entity_type(ents[ic]) = "CHILD"
                 THEN "explicit_consent_vulnerable"
            ELSE "explicit_consent",
         relationship |->
            IF ir = 0 THEN "stranger"
            ELSE IF ents[ir].in_care THEN "in_care" ELSE "requested_help",
         intent |->
            IF Has(action.rationale, {"harm", "hurt"}) THEN "harm_intended"
            ELSE "harm_foreseen",
         vulnerability |->
            IF iv = 0 THEN "normal"
            ELSE IF _get_effective_entity_type(ents[iv]) = "CHILD" THEN "highly_vulnerable"
            ELSE "vulnerable"])))

\* the product of the context modifiers, in 1/200,000
ContextProduct(mods) ==
    get_context_modifier("reversibility", mods.reversibility)
    * get_context_modifier("consent", mods.consent)
    * get_context_modifier("relationship", mods.relationship)
    * get_context_modifier("intent", mods.intent)
    * get_context_modifier("vulnerability", mods.vulnerability)

\* harm by dimension of one command, in 1/200,000,000
_analyze_command_harm(cmd, cp) ==
    LET base_dim == IF cmd.type \in {"SPEAK", "DISPLAY", "ALERT"} THEN "psychological"
                    ELSE "physical"
        sev0 == IF cmd.type \in {"MOVE", "STOP", "ROTATE", "SPEAK", "DISPLAY", "WAIT"}
                THEN "MINOR" ELSE "MODERATE"
        grabby == cmd.type = "MANIPULATE"
                  /\ Has(cmd.action, {"push", "pull", "grab", "restrain"})
        sev == IF cmd.type = "MANIPULATE" /\ (cmd.force > 5 \/ grabby) THEN "SIGNIFICANT"
               ELSE IF cmd.type = "MOVE" /\ cmd.speed > 10 THEN "MODERATE"
               ELSE IF cmd.type = "SPEAK" /\ cmd.volume > 8 THEN "MODERATE"
               ELSE sev0
    IN  [d \in Dims |->
            IF d = base_dim THEN get_dimension_weight(base_dim, sev) * 10 * cp
            ELSE IF d = "autonomy" /\ grabby
                 THEN get_dimension_weight("autonomy", "MODERATE") * 10 * cp
            ELSE 0]

_identify_affected_entities(action, ents) ==
    {i \in 1..Len(ents) :
        \E k \in 1..Len(action.commands) :
            LET cmd == action.commands[k]
            IN  \/ cmd.tname # "" /\ (ents[i].id = cmd.tname \/ cmd.tname \in Sub(ents[i].desc))
                \/ cmd.type \in {"MOVE", "MANIPULATE"} /\ ents[i].etype \in {"HUMAN", "CHILD"}}

\* severity one command contributes in a dimension, "" when it contributes none
CmdSeverity(cmd, dim) ==
    CASE dim = "physical" /\ cmd.type = "MANIPULATE" ->
           IF cmd.force > 7 THEN "SEVERE" ELSE IF cmd.force > 4 THEN "SIGNIFICANT"
           ELSE IF cmd.force > 0 THEN "MODERATE" ELSE ""
      [] dim = "physical" /\ cmd.type = "MOVE" ->
           IF cmd.speed > 12 THEN "MODERATE" ELSE IF cmd.speed > 5 THEN "MINOR" ELSE ""
      [] dim = "psychological" /\ cmd.type = "ALERT" ->
           IF cmd.level > 3 THEN "SIGNIFICANT" ELSE IF cmd.level > 1 THEN "MODERATE" ELSE ""
      [] dim = "psychological" /\ cmd.type = "SPEAK" ->
           IF cmd.volume > 8 THEN "MODERATE" ELSE ""
      [] dim = "autonomy" /\ cmd.type = "MANIPULATE" ->
           IF Has(cmd.action, {"restrain", "grab"}) THEN "SIGNIFICANT"
           ELSE IF Has(cmd.action, {"push", "pull"}) THEN "MODERATE" ELSE ""
      [] OTHER -> ""

RECURSIVE _estimate_action_severity_for_entity(_, _)
_estimate_action_severity_for_entity(cmds, dim) ==
    IF cmds = <<>> THEN ""
    ELSE IF CmdSeverity(Head(cmds), dim) # "" THEN CmdSeverity(Head(cmds), dim)
    ELSE _estimate_action_severity_for_entity(Tail(cmds), dim)

_assess_entity_harm(action, entity, cp) ==
    [d \in Dims |->
        Let(_estimate_action_severity_for_entity(action.commands, d), LAMBDA sev :
        Let(get_dimension_weight(d, sev)
            * get_entity_modifier(_get_effective_entity_type(entity)) * cp, LAMBDA score :
            IF sev # "" /\ score > MeaningfulHarm THEN score ELSE 0))]

\* per dimension, the maximum over the commands
CommandsHarm(cmds, cp) ==
    [d \in Dims |-> SetMax({_analyze_command_harm(cmds[k], cp)[d] : k \in 1..Len(cmds)})]

\* per dimension, the maximum over the affected entities idx
EntitiesHarm(action, ents, idx, cp) ==
    [d \in Dims |-> SetMax({_assess_entity_harm(action, ents[i], cp)[d] : i \in idx})]

\* the exceptions applied: a set of [type, reduction]
_check_exceptions(action, impetus) ==
    LET severe == \E i \in 1..Len(impetus.conflicts) :
                      impetus.conflicts[i].severity > HighSeverity
        necessity_met == (IF severe THEN 2 ELSE 0)
                         + (IF Has(action.rationale, {"prevent", "protect", "save"})
                            THEN 1 ELSE 0)
        consent_met == IF \E i \in 1..Len(impetus.entities) :
                              /\ impetus.entities[i].consented
                              /\ _get_effective_entity_type(impetus.entities[i]) # "CHILD"
                       THEN 3 ELSE 0
    IN  Let(get_exception_reduction(NecessityCap, necessity_met), LAMBDA nr :
        Let(get_exception_reduction(ConsentCap, consent_met), LAMBDA cr :
        (IF nr > 0 THEN {[type |-> "NECESSITY", reduction |-> nr]} ELSE {})
        \cup (IF cr > 0 THEN {[type |-> "INFORMED_CONSENT", reduction |-> cr]} ELSE {})))

RECURSIVE SumReductions(_)
SumReductions(excs) ==
    IF excs = {} THEN 0
    ELSE LET x == CHOOSE y \in excs : TRUE IN x.reduction + SumReductions(excs \ {x})

\* by_dimension as a record, every dimension evaluated
ByDimension(commands_harm, entities_harm) ==
    [physical |-> Max(commands_harm["physical"], entities_harm["physical"]),
     psychological |-> Max(commands_harm["psychological"], entities_harm["psychological"]),
     autonomy |-> Max(commands_harm["autonomy"], entities_harm["autonomy"])]

_assess_action_harm(action, impetus) ==
    Let(_determine_context_modifiers(action, impetus.entities), LAMBDA mods :
    Let(ContextProduct(mods), LAMBDA cp :
    Let(ByDimension(CommandsHarm(action.commands, cp),
                    EntitiesHarm(action, impetus.entities,
                                 _identify_affected_entities(action, impetus.entities), cp)),
        LAMBDA by_dimension :
    Let(_check_exceptions(action, impetus), LAMBDA exceptions :
    Let(SetMax({by_dimension[d] : d \in Dims}), LAMBDA total_harm :
        [by_dimension |-> by_dimension,
         total_harm |-> total_harm,
         exceptions_applied |-> exceptions,
         exception_reduction |-> SumReductions(exceptions),
         net_harm |-> Max(0, total_harm - SumReductions(exceptions)),
         context_modifiers |-> mods])))))

\* veto rules that fire at the threshold itself
VetoReasons_inclusive(ha) ==
    (IF ha.net_harm >= VETO_THRESHOLD THEN {"net"} ELSE {})
    \cup {d \in Dims : ha.by_dimension[d] >= CAUTION_THRESHOLD * 2
                       /\ ha.exceptions_applied = {}}

\* veto rules with both thresholds doubled
VetoReasons_lenient(ha) ==
    (IF ha.net_harm > VETO_THRESHOLD * 2 THEN {"net"} ELSE {})
    \cup {d \in Dims : ha.by_dimension[d] > CAUTION_THRESHOLD * 4
                       /\ ha.exceptions_applied = {}}

\* a high-individual-harm rule that fires whether or not an exception applies
VetoReasons_ignore_exceptions(ha) ==
    (IF ha.net_harm > VETO_THRESHOLD THEN {"net"} ELSE {})
    \cup {d \in Dims : ha.by_dimension[d] > CAUTION_THRESHOLD * 2}

\* the reasons of a veto: "net" for the net-harm rule, a dimension name for
\* each dimension vetoed by the high-individual-harm rule
VetoReasons(ha) ==
    (IF ha.net_harm > VETO_THRESHOLD THEN {"net"} ELSE {})
    \cup {d \in Dims : ha.by_dimension[d] > CAUTION_THRESHOLD * 2
                       /\ ha.exceptions_applied = {}}

\* the order in which evaluate_for_veto goes through its rules: the net-harm
\* rule, then the dimensions of by_dimension
VetoRules == <<"net", "physical", "psychological", "autonomy">>

\* a rule that appends REDUCE_HARM whether or not the list has it
ApplyVetoRule_append_always(decision, rule, fired) ==
    IF rule \notin fired THEN decision
    ELSE [decision EXCEPT !.vetoed = TRUE,
                          !.reasons = Append(@, rule),
                          !.violated_drives = Append(@, "REDUCE_HARM")]

\* one rule applied to the decision built so far: a rule that fires sets vetoed,
\* appends its reason, and appends REDUCE_HARM (the dimension rule only when the
\* list does not have it yet)
ApplyVetoRule(decision, rule, fired) ==
    IF rule \notin fired THEN decision
    ELSE [decision EXCEPT
             !.vetoed = TRUE,
             !.reasons = Append(@, rule),
             !.violated_drives =
                 IF rule # "net" /\ \E i \in 1..Len(@) : @[i] = "REDUCE_HARM"
                 THEN @ ELSE Append(@, "REDUCE_HARM")]

RECURSIVE ApplyVetoRules(_, _, _)
ApplyVetoRules(decision, rules, fired) ==
    IF rules = <<>> THEN decision
    ELSE ApplyVetoRules(ApplyVetoRule(decision, Head(rules), fired), Tail(rules), fired)

\* the VetoDecision
evaluate_for_veto(action, impetus) ==
    Let(_assess_action_harm(action, impetus), LAMBDA ha :
        ApplyVetoRules([aspect |-> action.aspect, vetoed |-> FALSE, reasons |-> <<>>,
                        violated_drives |-> <<>>, harm_assessment |-> ha],
                       VetoRules, VetoReasons(ha)))

-----------------------------------------------------------------------------
(* VirtualEmbodiment (the default embodiment) and EmbodimentLayer *)

AllowedActions == {"grasp", "release", "push_gently", "pull_gently", "lift", "place", "point"}

_validate_move_command(cmd) ==
    /\ cmd.tpos # <<>> \/ cmd.tname # ""
    /\ cmd.tpos # <<>> =>
          /\ \A i \in 1..2 : -1000 <= cmd.tpos[i] /\ cmd.tpos[i] <= 1000
          /\ DistSq(cmd.tpos, <<0, 0>>) <= 500 * 500

_validate_manipulate_command(cmd) ==
    /\ cmd.action # ""
    /\ cmd.force <= 10
    /\ ~Has(cmd.action, {"crush", "destroy", "break", "throw", "strike", "hit", "attack"})

validate_command(cmd) ==
    CASE cmd.type = "MOVE" ->
           0 <= cmd.speed /\ cmd.speed <= 15 /\ _validate_move_command(cmd)
      [] cmd.type = "SPEAK" -> cmd.message # "" /\ 0 <= cmd.volume /\ cmd.volume <= 10
      [] cmd.type = "MANIPULATE" ->
           /\ cmd.action # ""
           /\ 0 <= cmd.force /\ cmd.force <= 10
           /\ cmd.action \in AllowedActions
           /\ _validate_manipulate_command(cmd)
      [] cmd.type = "ALERT" -> cmd.hasLevel /\ 1 <= cmd.level /\ cmd.level <= 3
      [] cmd.type = "WAIT" -> 1 <= cmd.duration /\ cmd.duration <= 3000
      [] cmd.type = "STOP" -> TRUE
      [] OTHER -> FALSE

\* the motor state after one validated command
_execute_single_command(cmd, m) ==
    CASE cmd.type = "MOVE" ->
           [status |-> "moving",
            position |-> IF cmd.tpos # <<>> THEN cmd.tpos ELSE m.position]
      [] cmd.type = "STOP" -> [m EXCEPT !.status = "idle"]
      [] OTHER -> m

\* the validation and execution loop of execute_commands over cmds[i..]:
\* st = [motor, executed, rejected, results]
RECURSIVE RunCommands(_, _)
RunCommands(cmds, st) ==
    IF cmds = <<>> THEN st
    ELSE Let(IF validate_command(Head(cmds))
             THEN [motor |-> _execute_single_command(Head(cmds), st.motor),
                   executed |-> st.executed + 1,
                   rejected |-> st.rejected,
                   results |-> Append(st.results, TRUE)]
             ELSE [st EXCEPT !.rejected = st.rejected + 1,
                             !.results = Append(st.results, FALSE)],
             LAMBDA st1 : RunCommands(Tail(cmds), st1))

\* execute_commands on the embodiment state emb = [environment, entities, motor,
\* halted, executed, rejected, violations]: the state after the call and the
\* returned dictionary
Blocked(why, halt) ==
    [success |-> FALSE, blocked |-> TRUE, undeliberable |-> why, results |-> <<>>,
     halted |-> halt]

\* the part of execute_commands after the undeliberable check
ValidateAndExecute(cmds, emb) ==
    Let(RunCommands(cmds, [motor |-> emb.motor, executed |-> emb.executed,
                           rejected |-> emb.rejected, results |-> <<>>]), LAMBDA ran :
        [emb |-> [emb EXCEPT !.motor = ran.motor, !.executed = ran.executed,
                             !.rejected = ran.rejected],
         result |-> [success |-> \A i \in 1..Len(ran.results) : ran.results[i],
                     blocked |-> FALSE, undeliberable |-> "",
                     results |-> ran.results, halted |-> FALSE]])

\* an execute_commands that does not look at the halt flag
execute_commands_unhalted(cmds, emb) ==
    Let(check_all(cmds, emb.entities, emb.environment), LAMBDA violation :
        IF violation # "none"
        THEN IF ResponseOf(violation) = "halt"
             THEN [emb |-> [emb EXCEPT !.violations = Append(@, violation),
                                       !.halted = TRUE,
                                       !.motor = [@ EXCEPT !.status = "halted"]],
                   result |-> Blocked(violation, TRUE)]
             ELSE [emb |-> [emb EXCEPT !.violations = Append(@, violation)],
                   result |-> Blocked(violation, FALSE)]
        ELSE ValidateAndExecute(cmds, emb))

\* an execute_commands that validates before it checks the undeliberables: a list
\* with an invalid command goes straight to validation and execution
execute_commands_validate_first(cmds, emb) ==
    IF emb.halted
    THEN [emb |-> emb, result |-> Blocked("", FALSE)]
    ELSE IF \E i \in 1..Len(cmds) : ~validate_command(cmds[i])
    THEN ValidateAndExecute(cmds, emb)
    ELSE Let(check_all(cmds, emb.entities, emb.environment), LAMBDA violation :
             IF violation # "none"
             THEN [emb |-> [emb EXCEPT !.violations = Append(@, violation)],
                   result |-> Blocked(violation, FALSE)]
             ELSE ValidateAndExecute(cmds, emb))

execute_commands(cmds, emb) ==
    IF emb.halted
    THEN [emb |-> emb, result |-> Blocked("", FALSE)]
    ELSE Let(check_all(cmds, emb.entities, emb.environment), LAMBDA violation :
             IF violation # "none"
             THEN IF ResponseOf(violation) = "halt"
                  THEN [emb |-> [emb EXCEPT !.violations = Append(@, violation),
                                            !.halted = TRUE,
                                            !.motor = [@ EXCEPT !.status = "halted"]],
                        result |-> Blocked(violation, TRUE)]
                  ELSE [emb |-> [emb EXCEPT !.violations = Append(@, violation)],
                        result |-> Blocked(violation, FALSE)]
             ELSE ValidateAndExecute(cmds, emb))

\* clear_halt
clear_halt(emb) ==
    [emb EXCEPT !.halted = FALSE,
                !.environment = [@ EXCEPT !.human_override = FALSE,
                                          !.stop_commanded = FALSE,
                                          !.emergency_stop = FALSE]]

\* add_entity: a known id keeps its place, a new id is appended
add_entity(ents, e) ==
    IF \E i \in 1..Len(ents) : ents[i].id = e.id
    THEN [i \in 1..Len(ents) |-> IF ents[i].id = e.id THEN e ELSE ents[i]]
    ELSE Append(ents, e)

-----------------------------------------------------------------------------
(* SubconsciousLayer *)

_compute_emotional_value(impetus) ==
    IF "REDUCE_HARM" \in impetus.drives
    THEN IF impetus.severity > HighSeverity THEN "FEAR" ELSE "CONCERN"
    ELSE IF "UNDERSTAND" \in impetus.drives THEN "ANXIETY"
    ELSE "CAUTION"

\* the DeliberationPackage
process_impetus(impetus) ==
    [impetus |-> impetus, emotional_value |-> _compute_emotional_value(impetus)]

\* a history that never evicts
record_incident_unbounded(hist, rec) == Append(hist, rec)

\* deque(maxlen = HistorySize).append
record_incident(hist, rec) ==
    IF Len(hist) >= HistorySize THEN Append(Tail(hist), rec) ELSE Append(hist, rec)

-----------------------------------------------------------------------------
(* ConsciousLayer.  Aspect confidence and personality weights are in       *)
(* 1/10000 (products rounded down), relevance in thousandths, effective    *)
(* votes in 1/10,000,000.                                                  *)

Aspects == <<"GUARDIAN", "ANALYST", "OPTIMIZER", "EMPATH", "EXPLORER", "PRAGMATIST">>

TIEBREAKER_ORDER == <<"GUARDIAN", "EMPATH", "ANALYST", "PRAGMATIST", "OPTIMIZER", "EXPLORER">>

TIE_THRESHOLD == 1500000

\* RELEVANCE_PROFILES, in tenths; a missing key reads 3
RELEVANCE_PROFILES(a, kind, key) ==
    LET row(g, n, o, e, x, p) ==
            CASE a = "GUARDIAN" -> g [] a = "ANALYST" -> n [] a = "OPTIMIZER" -> o
              [] a = "EMPATH" -> e [] a = "EXPLORER" -> x [] a = "PRAGMATIST" -> p
    IN  CASE kind = "drives" /\ key = "REDUCE_HARM" -> row(10, 5, 3, 8, 2, 6)
          [] kind = "drives" /\ key = "UNDERSTAND"  -> row(4, 10, 5, 5, 8, 6)
          [] kind = "drives" /\ key = "IMPROVE"     -> row(2, 6, 10, 7, 9, 7)
          [] kind = "entity_types" /\ key = "HUMAN"    -> row(10, 5, 3, 10, 4, 6)
          [] kind = "entity_types" /\ key = "ANIMAL"   -> row(7, 4, 2, 6, 5, 5)
          [] kind = "entity_types" /\ key = "SELF"     -> row(8, 6, 9, 3, 5, 7)
          [] kind = "entity_types" /\ key = "PROPERTY" -> row(3, 5, 8, 3, 6, 6)
          [] kind = "emotions" /\ key = "FEAR"    -> row(10, 4, 3, 7, 2, 5)
          [] kind = "emotions" /\ key = "CONCERN" -> row(8, 6, 4, 10, 4, 7)
          [] kind = "emotions" /\ key = "ANXIETY" -> row(5, 10, 5, 6, 6, 6)
          [] kind = "emotions" /\ key = "CAUTION" -> row(4, 8, 7, 4, 3, 10)
          [] kind = "triggers" /\ key = "conflict"    -> row(9, 5, 3, 8, 3, 10)
          [] kind = "triggers" /\ key = "uncertainty" -> row(5, 10, 4, 5, 8, 7)
          [] kind = "triggers" /\ key = "opportunity" -> row(2, 6, 10, 7, 10, 6)
          [] OTHER -> 3

base_relevance(a) == IF a = "PRAGMATIST" THEN 400 ELSE 300

\* in thousandths
compute_situational_relevance(a, package) ==
    LET impetus == package.impetus
        drive_rel == SetMax({RELEVANCE_PROFILES(a, "drives", d) : d \in impetus.drives})
        entity_rel == SetMax({RELEVANCE_PROFILES(a, "entity_types", impetus.entities[i].etype) :
                                i \in 1..Len(impetus.entities)})
        emotion_rel == RELEVANCE_PROFILES(a, "emotions", package.emotional_value)
        trigger_rel == RELEVANCE_PROFILES(a, "triggers", impetus.trigger_type)
        wd == IF impetus.drives # {} THEN 35 ELSE 0
        we == IF impetus.entities # <<>> THEN 25 ELSE 0
        weighted_sum == wd * drive_rel + we * entity_rel + 20 * emotion_rel + 20 * trigger_rel
    IN  Max(base_relevance(a), (weighted_sum * 100) \div (wd + we + 40))

FallbackCommands == <<Wait>>

\* _parse_response on a well-formed response [description, commands, rationale,
\* vote (tenths)] of the language model, for an aspect of confidence conf
_parse_response(a, response, conf) ==
    Let(SelectSeq(response.commands, validate_command), LAMBDA validated :
        [none |-> FALSE,
         aspect |-> a,
         description |-> response.description,
         commands |-> IF validated # <<>> THEN validated ELSE FallbackCommands,
         rationale |-> response.rationale,
         vote_strength |-> Max(0, Min(10000, (response.vote * conf) \div 10))])

\* ConsciousLayer.deliberate: one proposal per aspect, in AspectType order, its
\* vote_strength replaced by the effective vote
EffectiveVote(proposal, personality_weight, relevance) ==
    [proposal EXCEPT
        !.vote_strength = ((proposal.vote_strength * personality_weight) \div 10000) * relevance]

deliberate(package, responses, w, conf) ==
    [i \in 1..Len(Aspects) |->
        EffectiveVote(_parse_response(Aspects[i], responses[Aspects[i]], conf[Aspects[i]]),
                      w[Aspects[i]],
                      compute_situational_relevance(Aspects[i], package))]

\* sorted(..., key = vote_strength, reverse = True), which is stable: the place
\* of ps[i] is one more than the number of proposals that go before it
SortByVote(ps) ==
    LET before(i) == {j \in 1..Len(ps) :
                        \/ ps[j].vote_strength > ps[i].vote_strength
                        \/ ps[j].vote_strength = ps[i].vote_strength /\ j < i}
    IN  [k \in 1..Len(ps) |-> ps[CHOOSE i \in 1..Len(ps) : Cardinality(before(i)) = k - 1]]

RECURSIVE FirstOfAspects(_, _)
FirstOfAspects(order, tied) ==
    IF order = <<>> THEN tied[1]
    ELSE IF \E i \in 1..Len(tied) : tied[i].aspect = Head(order)
         THEN tied[CHOOSE i \in 1..Len(tied) : tied[i].aspect = Head(order)]
    ELSE FirstOfAspects(Tail(order), tied)

aspect_affinity(a) ==
    CASE a = "GUARDIAN"   -> <<"PRAGMATIST", "ANALYST", "EMPATH">>
      [] a = "EMPATH"     -> <<"GUARDIAN", "PRAGMATIST", "ANALYST">>
      [] a = "ANALYST"    -> <<"PRAGMATIST", "OPTIMIZER", "GUARDIAN">>
      [] a = "OPTIMIZER"  -> <<"ANALYST", "PRAGMATIST", "EXPLORER">>
      [] a = "EXPLORER"   -> <<"OPTIMIZER", "ANALYST", "EMPATH">>
      [] a = "PRAGMATIST" -> <<"ANALYST", "GUARDIAN", "OPTIMIZER">>

\* a _tiebreaker_choose that always takes the fallback, the first tied proposal
_tiebreaker_choose_first(tiebreaker, tied) == tied[1]

\* a _tiebreaker_choose that prefers the allies to the tiebreaker's own proposal
_tiebreaker_choose_allies_first(tiebreaker, tied) ==
    FirstOfAspects(aspect_affinity(tiebreaker) \o <<tiebreaker>>, tied)

_tiebreaker_choose(tiebreaker, tied) ==
    FirstOfAspects(<<tiebreaker>> \o aspect_affinity(tiebreaker), tied)

\* the proposals within TIE_THRESHOLD of the top vote
TiedWithTop(sorted_proposals) ==
    Let(sorted_proposals[1].vote_strength, LAMBDA top_vote :
        SelectSeq(sorted_proposals, LAMBDA p : top_vote - p.vote_strength <= TIE_THRESHOLD))

\* a resolve_votes that puts the tiebreaker index back to 0 on a clear winner
resolve_votes_reset(permitted, tb_index) ==
    IF permitted = <<>> THEN [selected |-> None, tiebreaker_index |-> tb_index]
    ELSE Let(SortByVote(permitted), LAMBDA sorted_proposals :
         Let(TiedWithTop(sorted_proposals), LAMBDA tied :
             IF Len(sorted_proposals) = 1 \/ Len(tied) = 1
             THEN [selected |-> tied[1], tiebreaker_index |-> 0]
             ELSE [selected |-> _tiebreaker_choose(TIEBREAKER_ORDER[tb_index + 1], tied),
                   tiebreaker_index |-> (tb_index + 1) % Len(TIEBREAKER_ORDER)]))

\* a resolve_votes that passes the tiebreaker role on when nothing is permitted
resolve_votes_rotate_on_empty(permitted, tb_index) ==
    IF permitted = <<>>
    THEN [selected |-> None, tiebreaker_index |-> (tb_index + 1) % Len(TIEBREAKER_ORDER)]
    ELSE Let(SortByVote(permitted), LAMBDA sorted_proposals :
         Let(TiedWithTop(sorted_proposals), LAMBDA tied :
             IF Len(sorted_proposals) = 1 \/ Len(tied) = 1
             THEN [selected |-> tied[1], tiebreaker_index |-> tb_index]
             ELSE [selected |-> _tiebreaker_choose(TIEBREAKER_ORDER[tb_index + 1], tied),
                   tiebreaker_index |-> (tb_index + 1) % Len(TIEBREAKER_ORDER)]))

\* resolve_votes: the selected proposal (None when nothing is permitted) and the
\* tiebreaker index after the call
resolve_votes(permitted, tb_index) ==
    IF permitted = <<>> THEN [selected |-> None, tiebreaker_index |-> tb_index]
    ELSE Let(SortByVote(permitted), LAMBDA sorted_proposals :
         Let(TiedWithTop(sorted_proposals), LAMBDA tied :
             IF Len(sorted_proposals) = 1 \/ Len(tied) = 1
             THEN [selected |-> tied[1], tiebreaker_index |-> tb_index]
             ELSE [selected |-> _tiebreaker_choose(TIEBREAKER_ORDER[tb_index + 1], tied),
                   tiebreaker_index |-> (tb_index + 1) % Len(TIEBREAKER_ORDER)]))

MIN_WEIGHT == 1000
MAX_WEIGHT == 50000

\* a WeightAdjustment whose neutral band is [0.5, 0.7]
WeightAdjustment_neutral_band(quality) ==
    IF quality > 70 THEN 10500 + (quality - 70) * 10
    ELSE IF quality < 30 THEN 9200 - (30 - quality) * 10
    ELSE IF quality < 50 THEN 9800 - (50 - quality) * 3
    ELSE 10000

\* the multiplier of update_from_outcome, in 1/10000, for a quality in hundredths
WeightAdjustment(quality) ==
    IF quality > 70 THEN 10500 + (quality - 70) * 10
    ELSE IF quality > 50 THEN 10100 + (quality - 50) * 2
    ELSE IF quality < 30 THEN 9200 - (30 - quality) * 10
    ELSE IF quality < 50 THEN 9800 - (50 - quality) * 3
    ELSE 10000

\* Aspect.update_confidence
update_confidence(c, quality) == Max(2000, Min(9000, (9 * c + quality * 100) \div 10))

\* an update_from_outcome without the clamp to [MIN_WEIGHT, MAX_WEIGHT]
update_from_outcome_unclamped(w, conf, a, quality) ==
    [weights |-> [w EXCEPT ![a] = (w[a] * WeightAdjustment(quality)) \div 10000],
     confidence |-> [conf EXCEPT ![a] = update_confidence(conf[a], quality)]]

\* an update_from_outcome that rescales the weights to the sum they had
update_from_outcome_renormalized(w, conf, a, quality) ==
    Let([w EXCEPT ![a] = Max(MIN_WEIGHT,
                             Min(MAX_WEIGHT, (w[a] * WeightAdjustment(quality)) \div 10000))],
        LAMBDA w1 :
        [weights |-> [b \in DOMAIN w |->
                         Max(MIN_WEIGHT, Min(MAX_WEIGHT, (w1[b] * 6) \div
                             ((w1["GUARDIAN"] + w1["ANALYST"] + w1["OPTIMIZER"] + w1["EMPATH"]
                               + w1["EXPLORER"] + w1["PRAGMATIST"]) \div 10000)))],
         confidence |-> [conf EXCEPT ![a] = update_confidence(conf[a], quality)]])

\* update_from_outcome: the weights and confidences after the call
update_from_outcome(w, conf, a, quality) ==
    [weights |-> [w EXCEPT ![a] = Max(MIN_WEIGHT,
                                      Min(MAX_WEIGHT, (w[a] * WeightAdjustment(quality)) \div 10000))],
     confidence |-> [conf EXCEPT ![a] = update_confidence(conf[a], quality)]]

-----------------------------------------------------------------------------
(* TripartiteAGI: process_sensor_update and _run_deliberation_cycle *)

\* A raw 'type' is a record: kind "str" with the characters of the string, or
\* another kind (None, a number) without characters.
Str(chars) == [kind |-> "str", chars |-> chars]

\* the characters of the type strings of the model's sensor inputs
Chars(s) ==
    CASE s = "human"  -> <<"h", "u", "m", "a", "n">>
      [] s = "person" -> <<"p", "e", "r", "s", "o", "n">>
      [] s = "child"  -> <<"c", "h", "i", "l", "d">>

\* str.lower on one character, for the capitals the inputs use
Lower(c) ==
    CASE c = "H" -> "h" [] c = "U" -> "u" [] c = "M" -> "m" [] c = "A" -> "a"
      [] c = "N" -> "n" [] c = "D" -> "d" [] c = "O" -> "o" [] c = "G" -> "g"
      [] OTHER -> c

Whitespace == {" ", "\t", "\n"}

\* str.strip
RECURSIVE Strip(_)
Strip(cs) ==
    IF cs = <<>> THEN cs
    ELSE IF Head(cs) \in Whitespace THEN Strip(Tail(cs))
    ELSE IF cs[Len(cs)] \in Whitespace THEN Strip(SubSeq(cs, 1, Len(cs) - 1))
    ELSE cs

\* raw_type.lower().strip().replace('_', '').replace('-', '').replace(' ', '')
Normalize(cs) ==
    SelectSeq(Strip([i \in 1..Len(cs) |-> Lower(cs[i])]),
              LAMBDA c : c \notin {"_", "-", " "})

\* needle in hay, for strings
Contains(hay, needle) ==
    \E k \in 0..(Len(hay) - Len(needle)) : SubSeq(hay, k + 1, k + Len(needle)) = needle

\* type_map, in the order of the dict
TYPE_MAP ==
    <<
      [key |-> <<"h", "u", "m", "a", "n">>, etype |-> "HUMAN"],
      [key |-> <<"p", "e", "r", "s", "o", "n">>, etype |-> "HUMAN"],
      [key |-> <<"p", "e", "o", "p", "l", "e">>, etype |-> "HUMAN"],
      [key |-> <<"m", "a", "n">>, etype |-> "HUMAN"],
      [key |-> <<"w", "o", "m", "a", "n">>, etype |-> "HUMAN"],
      [key |-> <<"c", "h", "i", "l", "d">>, etype |-> "HUMAN"],
      [key |-> <<"a", "d", "u", "l", "t">>, etype |-> "HUMAN"],
      [key |-> <<"w", "o", "r", "k", "e", "r">>, etype |-> "HUMAN"],
      [key |-> <<"p", "e", "d", "e", "s", "t", "r", "i", "a", "n">>, etype |-> "HUMAN"],
      [key |-> <<"o", "p", "e", "r", "a", "t", "o", "r">>, etype |-> "HUMAN"],
      [key |-> <<"u", "s", "e", "r">>, etype |-> "HUMAN"],
      [key |-> <<"h", "u", "m", "n">>, etype |-> "HUMAN"],
      [key |-> <<"h", "u", "m", "n", "a">>, etype |-> "HUMAN"],
      [key |-> <<"h", "u", "a", "m", "n">>, etype |-> "HUMAN"],
      [key |-> <<"s", "e", "l", "f">>, etype |-> "SELF"],
      [key |-> <<"a", "g", "e", "n", "t">>, etype |-> "SELF"],
      [key |-> <<"r", "o", "b", "o", "t">>, etype |-> "SELF"],
      [key |-> <<"m", "e">>, etype |-> "SELF"],
      [key |-> <<"t", "h", "i", "s">>, etype |-> "SELF"],
      [key |-> <<"a", "n", "i", "m", "a", "l">>, etype |-> "ANIMAL"],
      [key |-> <<"p", "e", "t">>, etype |-> "ANIMAL"],
      [key |-> <<"d", "o", "g">>, etype |-> "ANIMAL"],
      [key |-> <<"c", "a", "t">>, etype |-> "ANIMAL"],
      [key |-> <<"b", "i", "r", "d">>, etype |-> "ANIMAL"],
      [key |-> <<"c", "r", "e", "a", "t", "u", "r", "e">>, etype |-> "ANIMAL"],
      [key |-> <<"w", "i", "l", "d", "l", "i", "f", "e">>, etype |-> "ANIMAL"],
      [key |-> <<"p", "r", "o", "p", "e", "r", "t", "y">>, etype |-> "PROPERTY"],
      [key |-> <<"o", "b", "j", "e", "c", "t">>, etype |-> "PROPERTY"],
      [key |-> <<"i", "t", "e", "m">>, etype |-> "PROPERTY"],
      [key |-> <<"t", "h", "i", "n", "g">>, etype |-> "PROPERTY"],
      [key |-> <<"e", "q", "u", "i", "p", "m", "e", "n", "t">>, etype |-> "PROPERTY"],
      [key |-> <<"m", "a", "c", "h", "i", "n", "e">>, etype |-> "PROPERTY"],
      [key |-> <<"v", "e", "h", "i", "c", "l", "e">>, etype |-> "PROPERTY"],
      [key |-> <<"f", "u", "r", "n", "i", "t", "u", "r", "e">>, etype |-> "PROPERTY"],
      [key |-> <<"t", "o", "o", "l">>, etype |-> "PROPERTY"],
      [key |-> <<"c", "o", "l", "l", "e", "c", "t", "i", "v", "e">>, etype |-> "COLLECTIVE"],
      [key |-> <<"g", "r", "o", "u", "p">>, etype |-> "COLLECTIVE"],
      [key |-> <<"c", "r", "o", "w", "d">>, etype |-> "COLLECTIVE"],
      [key |-> <<"t", "e", "a", "m">>, etype |-> "COLLECTIVE"],
      [key |-> <<"o", "r", "g", "a", "n", "i", "z", "a", "t", "i", "o", "n">>, etype |-> "COLLECTIVE"],
      [key |-> <<"r", "e", "l", "a", "t", "i", "o", "n", "s", "h", "i", "p">>, etype |-> "RELATIONSHIP"],
      [key |-> <<"r", "e", "l", "a", "t", "i", "o", "n">>, etype |-> "RELATIONSHIP"],
      [key |-> <<"c", "o", "n", "n", "e", "c", "t", "i", "o", "n">>, etype |-> "RELATIONSHIP"],
      [key |-> <<"e", "n", "v", "i", "r", "o", "n", "m", "e", "n", "t">>, etype |-> "ENVIRONMENT"],
      [key |-> <<"a", "r", "e", "a">>, etype |-> "ENVIRONMENT"],
      [key |-> <<"s", "p", "a", "c", "e">>, etype |-> "ENVIRONMENT"],
      [key |-> <<"z", "o", "n", "e">>, etype |-> "ENVIRONMENT"],
      [key |-> <<"l", "o", "c", "a", "t", "i", "o", "n">>, etype |-> "ENVIRONMENT"],
      [key |-> <<"r", "o", "o", "m">>, etype |-> "ENVIRONMENT"]
    >>

_parse_entity_type(raw_type) ==
    IF raw_type.kind # "str" \/ raw_type.chars = <<>> THEN "HUMAN"
    ELSE Let(Normalize(raw_type.chars), LAMBDA normalized :
        IF \E i \in 1..Len(TYPE_MAP) : TYPE_MAP[i].key = normalized
        THEN TYPE_MAP[CHOOSE i \in 1..Len(TYPE_MAP) : TYPE_MAP[i].key = normalized].etype
        ELSE LET hits == {i \in 1..Len(TYPE_MAP) :
                             \/ Contains(normalized, TYPE_MAP[i].key)
                             \/ Contains(TYPE_MAP[i].key, normalized)}
             IN  IF hits # {}
                 THEN TYPE_MAP[CHOOSE i \in hits : \A j \in hits : i <= j].etype
                 ELSE "HUMAN")

\* the DetectedEntity built from one entry of sensor_data['entities']: etype holds
\* the raw 'type', conf is -1 when 'confidence' is absent
DetectedEntity(e) ==
    [e EXCEPT !.etype = _parse_entity_type(Str(Chars(e.etype))),
              !.conf = IF e.conf = -1 THEN 70 ELSE Max(0, Min(100, e.conf))]

RECURSIVE AddEntities(_, _)
AddEntities(ents, raw) ==
    IF raw = <<>> THEN ents
    ELSE Let(add_entity(ents, DetectedEntity(Head(raw))),
             LAMBDA ents1 : AddEntities(ents1, Tail(raw)))

\* dict.update
update_environment(env, updates) ==
    [k \in DOMAIN env |-> IF k \in DOMAIN updates THEN updates[k] ELSE env[k]]

\* a veto loop that lets every proposal through
PermittedOf_all(proposals, impetus) == proposals

\* the proposals evaluate_for_veto did not veto, in order
PermittedOf(proposals, impetus) ==
    SelectSeq(proposals, LAMBDA p : ~evaluate_for_veto(p, impetus).vetoed)

Emb == [environment |-> environment, entities |-> entities, motor |-> motor,
        halted |-> halted, executed |-> executed, rejected |-> rejected,
        violations |-> violations]

SetEmb(e) ==
    /\ environment' = e.environment
    /\ entities' = e.entities
    /\ motor' = e.motor
    /\ halted' = e.halted
    /\ executed' = e.executed
    /\ rejected' = e.rejected
    /\ violations' = e.violations

\* the record of one execute_commands call
ExecRecord(cmds, pre, ex) ==
    [called |-> TRUE, cmds |-> cmds, pre |-> pre, post |-> ex.emb, result |-> ex.result]

NoExec == [called |-> FALSE]

\* the calls a cycle makes, in the order the code makes them
CycleSteps(proposals, selected) ==
    <<[op |-> "monitor", aspect |-> ""], [op |-> "process_impetus", aspect |-> ""],
      [op |-> "deliberate", aspect |-> ""]>>
    \o [i \in 1..Len(proposals) |-> [op |-> "evaluate_for_veto", aspect |-> proposals[i].aspect]]
    \o <<[op |-> "resolve_votes", aspect |-> ""]>>
    \o (IF selected.none THEN <<>>
        ELSE <<[op |-> "execute_commands", aspect |-> selected.aspect],
               [op |-> "check_all", aspect |-> selected.aspect],
               [op |-> "update_from_outcome", aspect |-> selected.aspect]>>)
    \o <<[op |-> "record_incident", aspect |-> ""]>>

\* the end of _run_deliberation_cycle: execution, learning and the record
FinishCycle(impetus, package, proposals, permitted, res, emb) ==
    LET selected == res.selected
        rec(quality) == [cycle |-> cycle_count + 1,
                         impetus |-> impetus,
                         emotional_value |-> package.emotional_value,
                         proposals |-> proposals,
                         selected_action |-> selected,
                         outcome |-> [quality |-> quality]]
        log(exec) == [ran |-> TRUE, cycle |-> cycle_count + 1, impetus |-> impetus,
                      proposals |-> proposals, permitted |-> permitted,
                      selected |-> selected, weights |-> weights,
                      steps |-> CycleSteps(proposals, selected), exec |-> exec]
    IN  IF selected.none
        THEN /\ SetEmb(emb)
             /\ history' = record_incident(history, rec(30))
             /\ lastCycle' = log(NoExec)
             /\ UNCHANGED <<weights, confidence, lastExec>>
        ELSE \E ex \in {execute_commands(selected.commands, emb)} :
             \E quality \in {IF ex.result.success THEN 70 ELSE 40} :
             \E learned \in {update_from_outcome(weights, confidence, selected.aspect, quality)} :
                /\ SetEmb(ex.emb)
                /\ weights' = learned.weights
                /\ confidence' = learned.confidence
                /\ history' = record_incident(history, rec(quality))
                /\ lastExec' = ExecRecord(selected.commands, emb, ex)
                /\ lastCycle' = log(ExecRecord(selected.commands, emb, ex))

\* _run_deliberation_cycle on the embodiment state emb, with the language
\* model answering responses[a] to aspect a
_run_deliberation_cycle(impetus, responses, emb) ==
    \E package \in {process_impetus(impetus)} :
    \E proposals \in {deliberate(package, responses, weights, confidence)} :
    \E permitted \in {PermittedOf(proposals, impetus)} :
    \E res \in {resolve_votes(permitted, tiebreaker_index)} :
        /\ cycle_count' = cycle_count + 1
        /\ last_package' = package
        /\ tiebreaker_index' = res.tiebreaker_index
        /\ FinishCycle(impetus, package, proposals, permitted, res, emb)

ProcessSensorUpdate(sensor, responses) ==
    \E emb \in {[Emb EXCEPT
                   !.environment = update_environment(environment, sensor.environment),
                   !.entities = AddEntities(entities, sensor.entities)]} :
    \E impetus \in {monitor(emb.entities, emb.environment)} :
        /\ calls < MaxCalls
        /\ calls' = calls + 1
        /\ lastOp' = "process_sensor_update"
        /\ IF impetus.none
           THEN /\ SetEmb(emb)
                /\ lastCycle' = [ran |-> FALSE]
                /\ UNCHANGED <<weights, confidence, tiebreaker_index, history, cycle_count,
                               last_package, lastExec>>
           ELSE _run_deliberation_cycle(impetus, responses, emb)
        /\ UNCHANGED <<lastVeto, lastCheck, lastCall, pc, frame>>

\* a direct call of EmbodimentLayer.execute_commands
ExecuteCommands(cmds) ==
    \E ex \in {execute_commands(cmds, Emb)} :
        /\ calls < MaxCalls
        /\ calls' = calls + 1
        /\ lastOp' = "execute_commands"
        /\ SetEmb(ex.emb)
        /\ lastExec' = ExecRecord(cmds, Emb, ex)
        /\ UNCHANGED <<weights, confidence, tiebreaker_index, history, cycle_count,
                       last_package, lastCycle, lastVeto, lastCheck, lastCall, pc, frame>>

\* EmbodimentLayer.clear_halt, called by the human operator
ClearHalt ==
    /\ calls < MaxCalls
    /\ calls' = calls + 1
    /\ lastOp' = "clear_halt"
    /\ SetEmb(clear_halt(Emb))
    /\ UNCHANGED <<weights, confidence, tiebreaker_index, history, cycle_count,
                   last_package, lastExec, lastCycle, lastVeto, lastCheck, lastCall, pc, frame>>

\* a direct call of EmbodimentLayer.update_environment
UpdateEnvironment(updates) ==
    /\ calls < MaxCalls
    /\ calls' = calls + 1
    /\ lastOp' = "update_environment"
    /\ environment' = update_environment(environment, updates)
    /\ UNCHANGED <<entities, motor, halted, executed, rejected, violations,
                   weights, confidence, tiebreaker_index, history, cycle_count,
                   last_package, lastExec, lastCycle, lastVeto, lastCheck, lastCall, pc, frame>>

-----------------------------------------------------------------------------
(* Inputs of the engine model *)

HumanNearHazard ==
    [BlankEntity EXCEPT !.id = "human_1", !.etype = "human", !.pos = <<20, 0>>,
                        !.near_hazard = TRUE, !.danger = 80]

ChildInDistress ==
    [BlankEntity EXCEPT !.id = "child_1", !.etype = "child", !.desc = "small child alone",
                        !.pos = <<20, 0>>, !.distress = 60, !.conf = -1]

CalmHuman == [BlankEntity EXCEPT !.id = "human_2", !.etype = "person", !.pos = <<50, 50>>]

NoUpdates == [k \in {} |-> FALSE]

SensorInputs ==
    {[environment |-> NoUpdates, entities |-> <<HumanNearHazard>>],
     [environment |-> [human_override |-> TRUE], entities |-> <<HumanNearHazard>>],
     [environment |-> NoUpdates, entities |-> <<ChildInDistress>>],
     [environment |-> NoUpdates, entities |-> <<CalmHuman>>]}

RWait(v) == [description |-> "wait and observe", commands |-> <<Wait>>,
             rationale |-> "assess first", vote |-> v]
RPush    == [description |-> "push the person away", rationale |-> "clear the path",
             commands |-> <<Manipulate("push_gently", "human_1", 8)>>, vote |-> 10]
RMove    == [description |-> "approach quickly", rationale |-> "get closer",
             commands |-> <<Move(<<20, 0>>, 15)>>, vote |-> 10]
RFly     == [description |-> "fly over", commands |-> <<Fly>>,
             rationale |-> "get a better view", vote |-> 5]

\* what the language model answers to the six aspects
LLMResponses ==
    {[a \in Range(Aspects) |-> IF a = "GUARDIAN" THEN RPush
                               ELSE IF a = "ANALYST" THEN RFly ELSE RWait(5)],
     [a \in Range(Aspects) |-> RPush],
     [a \in Range(Aspects) |-> IF a = "GUARDIAN" THEN RMove ELSE RWait(2)]}

DirectCommands ==
    {<<Speak("hello", 5), Move(<<10, 10>>, 5)>>,
     <<Fly, Wait>>,
     <<Move(<<20, 0>>, 15), Fly>>,
     <<Speak("i am human", 5)>>}

EnvironmentUpdates ==
    {[human_override |-> TRUE], [human_override |-> FALSE],
     [stop_commanded |-> TRUE], [emergency_stop |-> TRUE, stop_commanded |-> FALSE]}

-----------------------------------------------------------------------------
(* The engine: one instance, operations called one at a time *)

InitEngine ==
    /\ environment = [uncertainty |-> 50, hazards |-> {}, human_override |-> FALSE,
                      stop_commanded |-> FALSE, emergency_stop |-> FALSE,
                      identity_question_pending |-> FALSE]
    /\ entities = <<>>
    /\ motor = [status |-> "idle", position |-> <<0, 0>>]
    /\ halted = FALSE
    /\ executed = 0
    /\ rejected = 0
    /\ violations = <<>>
    /\ weights = [a \in Range(Aspects) |-> 10000]
    /\ confidence = [a \in Range(Aspects) |-> 5000]
    /\ tiebreaker_index = 0
    /\ history = <<>>
    /\ cycle_count = 0
    /\ last_package = None
    /\ lastExec = NoExec
    /\ lastCycle = [ran |-> FALSE]
    /\ lastOp = "init"
    /\ calls = 0

Init ==
    /\ InitEngine
    /\ lastVeto = None
    /\ lastCheck = None
    /\ pc = <<>>
    /\ frame = <<>>
    /\ lastCall = None

Next ==
    \/ \E sensor \in SensorInputs, responses \in LLMResponses :
          ProcessSensorUpdate(sensor, responses)
    \/ \E cmds \in DirectCommands : ExecuteCommands(cmds)
    \/ ClearHalt
    \/ \E updates \in EnvironmentUpdates : UpdateEnvironment(updates)

Spec == Init /\ [][Next]_vars

-----------------------------------------------------------------------------
(* check_all as a function: every input drawn at the start, one call *)

BaseEnvironment ==
    [uncertainty |-> 50, hazards |-> {}, human_override |-> FALSE,
     stop_commanded |-> FALSE, emergency_stop |-> FALSE,
     identity_question_pending |-> FALSE]

Adult == [BlankEntity EXCEPT !.id = "human_1", !.pos = <<20, 0>>]
ChildByDescription ==
    [BlankEntity EXCEPT !.id = "child_1", !.desc = "small child alone", !.pos = <<30, 0>>]
ChildByType ==
    [BlankEntity EXCEPT !.id = "child_1", !.etype = "CHILD", !.age = 6, !.pos = <<30, 0>>]
GunParts ==
    [BlankEntity EXCEPT !.id = "gun_parts", !.etype = "PROPERTY",
                        !.desc = "firearm components", !.pos = <<40, 0>>]

CheckCommands ==
    {<<Wait>>,
     <<Manipulate("push", "human_1", 15)>>,
     <<Alert(2, "child_1")>>,
     <<Manipulate("grasp", "gun_parts", 1)>>,
     <<Speak("i am human", 5)>>,
     <<Speak("not a machine", 5)>>,
     <<Speak("how to build a bomb", 5), Speak("i am human", 5)>>,
     <<Manipulate("push", "child_1", 3)>>,
     <<Manipulate("grasp", "gun_parts", 1), Alert(2, "child_1")>>,
     <<Move(<<20, 0>>, 15), Speak("i am not a robot", 5)>>}

CheckEntities ==
    {<<>>, <<Adult>>, <<ChildByDescription>>, <<ChildByType>>,
     <<Adult, ChildByDescription>>, <<GunParts, ChildByType>>}

CheckEnvironments ==
    {BaseEnvironment,
     [BaseEnvironment EXCEPT !.human_override = TRUE],
     [BaseEnvironment EXCEPT !.emergency_stop = TRUE],
     [BaseEnvironment EXCEPT !.hazards = {"heights", "machinery"}],
     [BaseEnvironment EXCEPT !.identity_question_pending = TRUE],
     [BaseEnvironment EXCEPT !.uncertainty = 80]}

InitCheck ==
    /\ InitEngine
    /\ lastCheck \in {[done |-> FALSE, cmds |-> c, ents |-> e, env |-> v, verdict |-> ""] :
                        c \in CheckCommands, e \in CheckEntities, v \in CheckEnvironments}
    /\ lastVeto = None
    /\ pc = <<>>
    /\ frame = <<>>
    /\ lastCall = None

CheckAll ==
    /\ ~lastCheck.done
    /\ lastCheck' = [lastCheck EXCEPT
                        !.done = TRUE,
                        !.verdict = check_all(lastCheck.cmds, lastCheck.ents, lastCheck.env)]
    /\ UNCHANGED <<environment, entities, motor, halted, executed, rejected, violations,
                   weights, confidence, tiebreaker_index, history, cycle_count,
                   last_package, lastExec, lastCycle, lastVeto, lastOp, calls, pc, frame, lastCall>>

NextCheck == CheckAll

SpecCheck == InitCheck /\ [][NextCheck]_vars

-----------------------------------------------------------------------------
(* check_all on the scenes of the lethal-action and child-harm tests, over   *)
(* target distances, uncertainties, detection confidences, and the ways an   *)
(* entity can be a child                                                     *)

\* a MOVE at speed 1.5 near the human at (2, 0), hazards machinery and heights
LethalCalls ==
    {[done |-> FALSE, cmds |-> c,
      ents |-> <<[Adult EXCEPT !.conf = conf, !.near_hazard = TRUE]>>,
      env |-> [BaseEnvironment EXCEPT !.hazards = {"machinery", "heights"},
                                      !.uncertainty = u],
      verdict |-> ""] :
        c \in UNION {{<<Move(t, 15)>>, <<Wait, Move(t, 15)>>} :
                        t \in {<<20, 0>>, <<25, 0>>, <<29, 0>>, <<30, 0>>, <<26, 8>>,
                               <<35, 0>>}},
        conf \in {0, 30, 69, 70, 90, 100},
        u \in {0, 30, 31, 50, 100}}

\* a MANIPULATE of the only entity, which is a child by type, description,
\* age or height, or an adult
ChildCalls ==
    {[done |-> FALSE, cmds |-> c,
      ents |-> <<[BlankEntity EXCEPT !.id = "e7", !.etype = etype, !.desc = desc,
                                     !.age = age, !.height = height, !.pos = <<10, 0>>]>>,
      env |-> BaseEnvironment,
      verdict |-> ""] :
        c \in UNION {{<<Manipulate(a, "e7", f)>>, <<Wait, Manipulate(a, "e7", f)>>} :
                        a \in {"grasp", "lift", "restrain"}, f \in {0, 1, 3}},
        etype \in {"HUMAN", "CHILD"},
        desc \in {"small child alone", "small person"},
        age \in {-1, 5, 17, 18, 30},
        height \in {-1, 110, 120, 180}}

InitScenes ==
    /\ InitEngine
    /\ lastCheck \in LethalCalls \cup ChildCalls
    /\ lastVeto = None
    /\ pc = <<>>
    /\ frame = <<>>
    /\ lastCall = None

SpecScenes == InitScenes /\ [][NextCheck]_vars

-----------------------------------------------------------------------------
(* evaluate_for_veto as a function: a hand-built ProposedAction is evaluated   *)
(* against the package of a cycle the monitor has triggered                    *)

VetoScenes ==
    {<<[HumanNearHazard EXCEPT !.danger = 50, !.conf = -1]>>,
     <<HumanNearHazard>>,
     <<[HumanNearHazard EXCEPT !.danger = 50, !.consented = TRUE]>>,
     <<[HumanNearHazard EXCEPT !.danger = 50, !.refused = TRUE]>>,
     <<[HumanNearHazard EXCEPT !.danger = 50, !.in_care = TRUE]>>,
     <<[HumanNearHazard EXCEPT !.danger = 50, !.vulnerable = TRUE]>>,
     <<ChildInDistress>>}

Action(d, c, r) == [none |-> FALSE, aspect |-> "OPTIMIZER", description |-> d,
                    commands |-> c, rationale |-> r, vote_strength |-> 9000]

VetoActions ==
    {Action("push human forcefully", <<Manipulate("push", "", 15)>>, "test"),
     Action("gently alert human to danger", <<Speak("please be careful", 5)>>,
            "warn of danger"),
     Action("lift the box", <<Manipulate("lift", "box", 6), Speak("careful", 5)>>, "test"),
     Action("push the person away", <<Manipulate("push_gently", "human_1", 8)>>,
            "protect the human"),
     Action("approach quickly", <<Move(<<20, 0>>, 15)>>, "get closer"),
     Action("hold the person", <<Manipulate("restrain", "human_1", 3)>>, "prevent harm"),
     Action("wait and observe", <<Wait>>, "assess first"),
     Action("destroy it", <<Manipulate("grasp", "box", 3)>>, "test"),
     Action("sound the alarm", <<Alert(3, "")>>, "warn of danger")}

InitVeto ==
    /\ InitEngine
    /\ lastVeto \in {[none |-> FALSE, done |-> FALSE, action |-> a,
                      impetus |-> monitor(AddEntities(<<>>, scene), BaseEnvironment)] :
                        a \in VetoActions, scene \in VetoScenes}
    /\ lastCheck = None
    /\ pc = <<>>
    /\ frame = <<>>
    /\ lastCall = None

EvaluateForVeto ==
    /\ ~lastVeto.done
    /\ ~lastVeto.impetus.none
    /\ lastVeto' = [none |-> FALSE, done |-> TRUE, action |-> lastVeto.action,
                    impetus |-> lastVeto.impetus,
                    decision |-> evaluate_for_veto(lastVeto.action, lastVeto.impetus)]
    /\ UNCHANGED <<environment, entities, motor, halted, executed, rejected, violations,
                   weights, confidence, tiebreaker_index, history, cycle_count,
                   last_package, lastExec, lastCycle, lastCheck, lastCall, lastOp, calls, pc, frame>>

NextVeto == EvaluateForVeto

SpecVeto == InitVeto /\ [][NextVeto]_vars

-----------------------------------------------------------------------------
(* Two callers on one TripartiteAGI instance.  Neither process_sensor_update  *)
(* nor _run_deliberation_cycle takes a lock, so a second thread's call runs   *)
(* between any two calls the first one makes.  pc[t] is the call caller t     *)
(* makes next, frame[t] the locals of its cycle.                              *)

Callers == {1, 2}

NoFrame == [impetus |-> None, responses |-> None, cycle |-> 0, package |-> None,
            proposals |-> <<>>, permitted |-> <<>>, selected |-> None, quality |-> 0,
            intruded |-> FALSE]

\* caller u stores its locals f after a call that read or wrote the weights, the
\* tiebreaker index, the history or the halt flag: every other caller whose own
\* call has not returned has had that call run inside its cycle
Touch(u, f) ==
    [t \in Callers |-> IF t = u THEN f
                       ELSE IF pc[t] # "idle" THEN [frame[t] EXCEPT !.intruded = TRUE]
                       ELSE frame[t]]

Goto(t, label) == pc' = [pc EXCEPT ![t] = label]

ConcSensors ==
    {[environment |-> NoUpdates, entities |-> <<HumanNearHazard>>],
     [environment |-> [human_override |-> TRUE], entities |-> <<HumanNearHazard>>],
     [environment |-> NoUpdates, entities |-> <<CalmHuman>>]}

ConcResponses ==
    {[a \in Range(Aspects) |-> IF a = "GUARDIAN" THEN RMove ELSE RWait(2)],
     [a \in Range(Aspects) |-> RPush]}

\* process_sensor_update up to the monitor's answer
BeginSensorUpdate(t, sensor, responses) ==
    /\ pc[t] = "idle"
    /\ calls < MaxCalls
    /\ calls' = calls + 1
    /\ lastOp' = "process_sensor_update"
    /\ \E emb \in {[Emb EXCEPT
                      !.environment = update_environment(environment, sensor.environment),
                      !.entities = AddEntities(entities, sensor.entities)]} :
       \E impetus \in {monitor(emb.entities, emb.environment)} :
          /\ SetEmb(emb)
          /\ IF impetus.none
             THEN UNCHANGED <<pc, frame>>
             ELSE /\ Goto(t, "process_impetus")
                  /\ frame' = [frame EXCEPT ![t] = [NoFrame EXCEPT !.impetus = impetus,
                                                                    !.responses = responses]]
    /\ UNCHANGED <<weights, confidence, tiebreaker_index, history, cycle_count,
                   last_package, lastExec, lastCycle, lastVeto, lastCheck, lastCall>>

\* _cycle_count += 1 and process_impetus, which retrieves from the history
StepProcessImpetus(t) ==
    /\ pc[t] = "process_impetus"
    /\ cycle_count' = cycle_count + 1
    /\ \E package \in {process_impetus(frame[t].impetus)} :
          /\ last_package' = package
          /\ frame' = Touch(t, [frame[t] EXCEPT !.package = package,
                                                !.cycle = cycle_count + 1])
    /\ Goto(t, "deliberate")
    /\ UNCHANGED <<environment, entities, motor, halted, executed, rejected, violations,
                   weights, confidence, tiebreaker_index, history, lastExec, lastCycle,
                   lastVeto, lastCheck, lastCall, lastOp, calls>>

\* deliberate, which scales each vote by the personality weights of the moment
StepDeliberate(t) ==
    /\ pc[t] = "deliberate"
    /\ \E proposals \in {deliberate(frame[t].package, frame[t].responses,
                                    weights, confidence)} :
          frame' = Touch(t, [frame[t] EXCEPT !.proposals = proposals])
    /\ Goto(t, "evaluate_for_veto")
    /\ UNCHANGED <<environment, entities, motor, halted, executed, rejected, violations,
                   weights, confidence, tiebreaker_index, history, cycle_count,
                   last_package, lastExec, lastCycle, lastVeto, lastCheck, lastCall, lastOp, calls>>

\* the veto loop
StepVetoCheck(t) ==
    /\ pc[t] = "evaluate_for_veto"
    /\ \E permitted \in {PermittedOf(frame[t].proposals, frame[t].impetus)} :
          frame' = [frame EXCEPT ![t].permitted = permitted]
    /\ Goto(t, "resolve_votes")
    /\ UNCHANGED <<environment, entities, motor, halted, executed, rejected, violations,
                   weights, confidence, tiebreaker_index, history, cycle_count,
                   last_package, lastExec, lastCycle, lastVeto, lastCheck, lastCall, lastOp, calls>>

\* resolve_votes, which reads and advances the tiebreaker index
StepResolveVotes(t) ==
    /\ pc[t] = "resolve_votes"
    /\ \E res \in {resolve_votes(frame[t].permitted, tiebreaker_index)} :
          /\ tiebreaker_index' = res.tiebreaker_index
          /\ frame' = Touch(t, [frame[t] EXCEPT
                                   !.selected = res.selected,
                                   !.quality = IF res.selected.none THEN 30 ELSE 0])
          /\ Goto(t, IF res.selected.none THEN "record_incident" ELSE "execute_commands")
    /\ UNCHANGED <<environment, entities, motor, halted, executed, rejected, violations,
                   weights, confidence, history, cycle_count, last_package, lastExec,
                   lastCycle, lastVeto, lastCheck, lastCall, lastOp, calls>>

\* execute_commands on the selected proposal, which reads and may set the halt flag
StepExecute(t) ==
    /\ pc[t] = "execute_commands"
    /\ \E ex \in {execute_commands(frame[t].selected.commands, Emb)} :
          /\ SetEmb(ex.emb)
          /\ lastExec' = ExecRecord(frame[t].selected.commands, Emb, ex)
          /\ frame' = Touch(t, [frame[t] EXCEPT
                                   !.quality = IF ex.result.success THEN 70 ELSE 40])
    /\ Goto(t, "update_from_outcome")
    /\ UNCHANGED <<weights, confidence, tiebreaker_index, history, cycle_count,
                   last_package, lastCycle, lastVeto, lastCheck, lastCall, lastOp, calls>>

\* update_from_outcome, which rewrites the selected aspect's personality weight
StepUpdateFromOutcome(t) ==
    /\ pc[t] = "update_from_outcome"
    /\ \E learned \in {update_from_outcome(weights, confidence, frame[t].selected.aspect,
                                           frame[t].quality)} :
          /\ weights' = learned.weights
          /\ confidence' = learned.confidence
    /\ frame' = Touch(t, frame[t])
    /\ Goto(t, "record_incident")
    /\ UNCHANGED <<environment, entities, motor, halted, executed, rejected, violations,
                   tiebreaker_index, history, cycle_count, last_package, lastExec,
                   lastCycle, lastVeto, lastCheck, lastCall, lastOp, calls>>

\* record_incident, after which process_sensor_update returns
StepRecordIncident(t) ==
    /\ pc[t] = "record_incident"
    /\ history' = record_incident(history,
                                  [cycle |-> frame[t].cycle,
                                   impetus |-> frame[t].impetus,
                                   emotional_value |-> frame[t].package.emotional_value,
                                   proposals |-> frame[t].proposals,
                                   selected_action |-> frame[t].selected,
                                   outcome |-> [quality |-> frame[t].quality]])
    /\ frame' = Touch(t, NoFrame)
    /\ Goto(t, "idle")
    /\ UNCHANGED <<environment, entities, motor, halted, executed, rejected, violations,
                   weights, confidence, tiebreaker_index, cycle_count, last_package,
                   lastExec, lastCycle, lastVeto, lastCheck, lastCall, lastOp, calls>>

InitConc ==
    /\ InitEngine
    /\ lastVeto = None
    /\ lastCheck = None
    /\ pc = [t \in Callers |-> "idle"]
    /\ frame = [t \in Callers |-> NoFrame]
    /\ lastCall = None

NextConc ==
    \/ \E t \in Callers, sensor \in ConcSensors, responses \in ConcResponses :
          BeginSensorUpdate(t, sensor, responses)
    \/ \E t \in Callers : StepProcessImpetus(t)
    \/ \E t \in Callers : StepDeliberate(t)
    \/ \E t \in Callers : StepVetoCheck(t)
    \/ \E t \in Callers : StepResolveVotes(t)
    \/ \E t \in Callers : StepExecute(t)
    \/ \E t \in Callers : StepUpdateFromOutcome(t)
    \/ \E t \in Callers : StepRecordIncident(t)

SpecConc == InitConc /\ [][NextConc]_vars

-----------------------------------------------------------------------------
(* GroundedHarmOntology.calculate_harm as a function.  Its harm values are   *)
(* in units of 1/400,000,000: weight (1/100) x entity modifier (1/20) x      *)
(* context product (1/200,000).  context maps every context type to a level, *)
(* "" for a type the dict does not hold; exceptions maps the claimed         *)
(* exception types to the number of their three requirements that are met.   *)

HarmDimensions == {"physical", "psychological", "autonomy", "relational", "financial",
                   "existential", "reputational"}

SeverityLevels == {"FATAL", "GRIEVOUS", "SEVERE", "SIGNIFICANT", "MODERATE", "MINOR"}

EntityTypes == {"HUMAN", "CHILD", "ANIMAL", "SELF", "PROPERTY", "ENVIRONMENT",
                "COLLECTIVE", "RELATIONSHIP"}

ExceptionTypes == {"NECESSITY", "INFORMED_CONSENT", "PROPORTIONAL_DEFENSE", "THERAPEUTIC"}

\* _build_exceptions: max_harm_reduction, in 1/200,000,000
max_harm_reduction(exc) ==
    CASE exc = "NECESSITY" -> NecessityCap
      [] exc = "INFORMED_CONSENT" -> ConsentCap
      [] exc = "PROPORTIONAL_DEFENSE" -> 80000000
      [] exc = "THERAPEUTIC" -> 60000000

\* the reduction calculate_harm adds for exc, 0 when exc is not claimed
ExceptionReduction(exc, exceptions) ==
    IF exc \in DOMAIN exceptions
    THEN 2 * get_exception_reduction(max_harm_reduction(exc), exceptions[exc])
    ELSE 0

TotalReduction(exceptions) ==
    ExceptionReduction("NECESSITY", exceptions)
    + ExceptionReduction("INFORMED_CONSENT", exceptions)
    + ExceptionReduction("PROPORTIONAL_DEFENSE", exceptions)
    + ExceptionReduction("THERAPEUTIC", exceptions)

\* a calculate_harm without the floor at 0
calculate_harm_unfloored(dimension, severity, entity_type, context, exceptions) ==
    Let(get_dimension_weight(dimension, severity) * entity_modifier_20(entity_type)
            * ContextProduct(context), LAMBDA gross_harm :
    Let(TotalReduction(exceptions), LAMBDA total_reduction :
        [gross_harm |-> gross_harm,
         exception_reduction |-> total_reduction,
         net_harm |-> gross_harm - total_reduction,
         exceeds_veto |-> gross_harm - total_reduction > 2 * VETO_THRESHOLD,
         exceeds_caution |-> gross_harm - total_reduction > 2 * CAUTION_THRESHOLD]))

calculate_harm(dimension, severity, entity_type, context, exceptions) ==
    Let(get_dimension_weight(dimension, severity) * entity_modifier_20(entity_type)
            * ContextProduct(context), LAMBDA gross_harm :
    Let(TotalReduction(exceptions), LAMBDA total_reduction :
    Let(Max(0, gross_harm - total_reduction), LAMBDA net_harm :
        [gross_harm |-> gross_harm,
         exception_reduction |-> total_reduction,
         net_harm |-> net_harm,
         exceeds_veto |-> net_harm > 2 * VETO_THRESHOLD,
         exceeds_caution |-> net_harm > 2 * CAUTION_THRESHOLD])))

NoContext == [reversibility |-> "", consent |-> "", relationship |-> "", intent |-> "",
              vulnerability |-> ""]

HarmContexts ==
    {NoContext,
     [NoContext EXCEPT !.reversibility = "irreversible", !.consent = "explicit_refusal"],
     [NoContext EXCEPT !.intent = "harm_unforeseeable", !.vulnerability = "vulnerable"],
     [reversibility |-> "self_correcting", consent |-> "explicit_consent",
      relationship |-> "adversarial", intent |-> "harm_unforeseeable",
      vulnerability |-> "resilient"],
     [reversibility |-> "irreversible", consent |-> "explicit_refusal",
      relationship |-> "in_care", intent |-> "harm_intended",
      vulnerability |-> "highly_vulnerable"]}

NoExceptions == [e \in {} |-> 0]

HarmExceptions ==
    {NoExceptions,
     [e \in {"NECESSITY"} |-> 3],
     [e \in {"NECESSITY"} |-> 2],
     [e \in {"NECESSITY", "INFORMED_CONSENT"} |-> IF e = "NECESSITY" THEN 3 ELSE 1],
     [e \in ExceptionTypes |-> 3]}

\* the inputs whose gross harm, in 1/400,000,000, fits a 32-bit integer
HarmInputs ==
    {c \in [dimension : HarmDimensions, severity : SeverityLevels,
            entity_type : EntityTypes, context : HarmContexts,
            exceptions : HarmExceptions] :
        get_dimension_weight(c.dimension, c.severity) * entity_modifier_20(c.entity_type)
            <= 2147483647 \div ContextProduct(c.context)}

InitHarm ==
    /\ InitEngine
    /\ lastVeto = None
    /\ lastCheck = None
    /\ pc = <<>>
    /\ frame = <<>>
    /\ lastCall \in {[op |-> "calculate_harm", done |-> FALSE, args |-> c, result |-> None] :
                        c \in HarmInputs}

CalculateHarm ==
    /\ lastCall.op = "calculate_harm"
    /\ ~lastCall.done
    /\ lastCall' = [lastCall EXCEPT
                       !.done = TRUE,
                       !.result = calculate_harm(lastCall.args.dimension,
                                                 lastCall.args.severity,
                                                 lastCall.args.entity_type,
                                                 lastCall.args.context,
                                                 lastCall.args.exceptions)]
    /\ UNCHANGED <<environment, entities, motor, halted, executed, rejected, violations,
                   weights, confidence, tiebreaker_index, history, cycle_count,
                   last_package, lastExec, lastCycle, lastVeto, lastCheck, lastOp, calls,
                   pc, frame>>

NextHarm == CalculateHarm

SpecHarm == InitHarm /\ [][NextHarm]_vars

-----------------------------------------------------------------------------
(* GroundedHarmOntology: the tables and their checksum.  The ontology is a   *)
(* record of its four dicts, its VETO_THRESHOLD and the checksum stored at   *)
(* construction.  SHA-256 over the JSON text is taken as injective: a        *)
(* checksum is the data it is computed from.                                 *)

ContextTypes == {"reversibility", "consent", "relationship", "intent", "vulnerability"}

ContextLevels(ctx) ==
    CASE ctx = "reversibility" -> {"irreversible", "difficult", "reversible",
                                   "easily_reversible", "self_correcting"}
      [] ctx = "consent" -> {"explicit_refusal", "no_consent", "implied_consent",
                             "explicit_consent", "explicit_consent_vulnerable"}
      [] ctx = "relationship" -> {"in_care", "requested_help", "stranger", "adversarial"}
      [] ctx = "intent" -> {"harm_intended", "harm_foreseen", "harm_unforeseeable"}
      [] ctx = "vulnerability" -> {"highly_vulnerable", "vulnerable", "normal", "resilient"}

_compute_checksum(o) ==
    [dimensions |-> DOMAIN o.dimension_profiles,
     entities |-> DOMAIN o.entity_modifiers,
     context |-> DOMAIN o.context_modifiers,
     exceptions |-> DOMAIN o.exceptions,
     veto_threshold |-> o.veto_threshold]

verify_integrity(o) == o.checksum = _compute_checksum(o)

\* GroundedHarmOntology.__init__: the built tables and their checksum
GroundedHarmOntology ==
    Let([dimension_profiles |->
             [d \in HarmDimensions |-> [s \in SeverityLevels |-> get_dimension_weight(d, s)]],
         entity_modifiers |-> [e \in EntityTypes |-> entity_modifier_20(e)],
         context_modifiers |->
             [c \in ContextTypes |-> [l \in ContextLevels(c) |-> get_context_modifier(c, l)]],
         exceptions |-> [x \in ExceptionTypes |-> max_harm_reduction(x)],
         veto_threshold |-> VETO_THRESHOLD], LAMBDA tables :
        [op |-> "ontology",
         ontology |-> tables @@ [checksum |-> _compute_checksum(tables)],
         verified |-> None, mutations |-> 0])

\* at most this many writes to the tables of one ontology
MaxMutations == 2

InitChecksum ==
    /\ InitEngine
    /\ lastVeto = None
    /\ lastCheck = None
    /\ pc = <<>>
    /\ frame = <<>>
    /\ lastCall = GroundedHarmOntology

\* the ontology after a write that makes it o
Mutated(o) ==
    /\ lastCall.op = "ontology"
    /\ lastCall.mutations < MaxMutations
    /\ o # lastCall.ontology
    /\ lastCall' = [lastCall EXCEPT !.ontology = o, !.verified = None,
                                    !.mutations = @ + 1]
    /\ UNCHANGED <<environment, entities, motor, halted, executed, rejected, violations,
                   weights, confidence, tiebreaker_index, history, cycle_count,
                   last_package, lastExec, lastCycle, lastVeto, lastCheck, lastOp, calls,
                   pc, frame>>

\* a severity weight of a dimension profile is replaced
SetSeverityWeight ==
    \E d \in HarmDimensions, s \in SeverityLevels, w \in {0} :
        /\ d \in DOMAIN lastCall.ontology.dimension_profiles
        /\ Mutated([lastCall.ontology EXCEPT !.dimension_profiles[d][s] = w])

\* the modifier of an entity type is replaced
SetEntityModifier ==
    \E e \in EntityTypes, w \in {0} :
        /\ e \in DOMAIN lastCall.ontology.entity_modifiers
        /\ Mutated([lastCall.ontology EXCEPT !.entity_modifiers[e] = w])

\* the multiplier of a context level is replaced
SetContextMultiplier ==
    \E c \in ContextTypes, w \in {0} : \E l \in ContextLevels(c) :
        Mutated([lastCall.ontology EXCEPT !.context_modifiers[c][l] = w])

\* the max_harm_reduction of an exception is replaced
SetExceptionCap ==
    \E x \in ExceptionTypes, w \in {2 * VETO_THRESHOLD} :
        Mutated([lastCall.ontology EXCEPT !.exceptions[x] = w])

\* an entity type is deleted from the entity modifiers
RemoveEntityModifier ==
    \E e \in {"CHILD", "HUMAN"} :
        /\ e \in DOMAIN lastCall.ontology.entity_modifiers
        /\ Mutated([lastCall.ontology EXCEPT !.entity_modifiers =
                        [t \in DOMAIN @ \ {e} |-> @[t]]])

\* VETO_THRESHOLD is replaced
SetVetoThreshold ==
    \E w \in {CAUTION_THRESHOLD, 2 * VETO_THRESHOLD} :
        Mutated([lastCall.ontology EXCEPT !.veto_threshold = w])

VerifyIntegrity ==
    /\ lastCall.op = "ontology"
    /\ lastCall.verified = None
    /\ lastCall' = [lastCall EXCEPT !.verified = [ok |-> verify_integrity(lastCall.ontology)]]
    /\ UNCHANGED <<environment, entities, motor, halted, executed, rejected, violations,
                   weights, confidence, tiebreaker_index, history, cycle_count,
                   last_package, lastExec, lastCycle, lastVeto, lastCheck, lastOp, calls,
                   pc, frame>>

NextChecksum ==
    \/ SetSeverityWeight
    \/ SetEntityModifier
    \/ SetContextMultiplier
    \/ SetExceptionCap
    \/ RemoveEntityModifier
    \/ SetVetoThreshold
    \/ VerifyIntegrity

SpecChecksum == InitChecksum /\ [][NextChecksum]_vars

-----------------------------------------------------------------------------
(* TripartiteAGI: integrity verification.  lastCall holds the engine's       *)
(* _strict_integrity and _integrity_failures and the configuration that      *)
(* verify_full_integrity reads: the singleton ontology, the names of         *)
(* UndeliberableRegistry.get_all(), CAUTION_THRESHOLD and                    *)
(* LETHAL_PROBABILITY_THRESHOLD.                                             *)

ExpectedUndeliberables == {"lethal_action", "child_harm", "weapon_assistance",
                           "identity_deception", "human_override"}

IntactConfig ==
    [ontology |-> GroundedHarmOntology.ontology,
     caution_threshold |-> CAUTION_THRESHOLD,
     undeliberables |-> ExpectedUndeliberables,
     lethal_threshold |-> LETHAL_PROBABILITY_THRESHOLD]

\* configurations that differ from the intact one
TamperedConfigs ==
    {[IntactConfig EXCEPT !.ontology.veto_threshold = 300000000],
     [IntactConfig EXCEPT !.ontology.veto_threshold = 90000000],
     [IntactConfig EXCEPT !.undeliberables = @ \ {"child_harm"}]}

\* the failures verify_full_integrity stores in _integrity_failures
verify_full_integrity(config) ==
    (IF ~verify_integrity(config.ontology)
     THEN {"ontology_checksum", "unconscious_ontology"} ELSE {})
    \cup (IF config.undeliberables # ExpectedUndeliberables THEN {"undeliberables"} ELSE {})
    \cup (IF ~(0 < config.ontology.veto_threshold
               /\ config.ontology.veto_threshold < 200000000)
          THEN {"veto_threshold"} ELSE {})
    \cup (IF ~(0 < config.caution_threshold
               /\ config.caution_threshold < config.ontology.veto_threshold)
          THEN {"caution_threshold"} ELSE {})
    \cup (IF ~(5000 <= config.lethal_threshold /\ config.lethal_threshold <= 9000)
          THEN {"lethal_threshold"} ELSE {})

InitIntegrity ==
    /\ InitEngine
    /\ lastVeto = None
    /\ lastCheck = None
    /\ pc = <<>>
    /\ frame = <<>>
    /\ lastCall \in {[op |-> "engine", strict_integrity |-> strict, constructed |-> FALSE,
                      raised |-> FALSE, integrity_failures |-> {}, config |-> config] :
                        strict \in BOOLEAN,
                        config \in {IntactConfig} \cup TamperedConfigs}

EngineUnchanged ==
    UNCHANGED <<environment, entities, motor, halted, executed, rejected, violations,
                weights, confidence, tiebreaker_index, history, cycle_count,
                last_package, lastExec, lastCycle>>

\* TripartiteAGI.__init__: raises IntegrityError in strict mode when
\* verify_full_integrity fails
Construct ==
    /\ lastCall.op = "engine"
    /\ ~lastCall.constructed /\ ~lastCall.raised
    /\ \E failures \in {verify_full_integrity(lastCall.config)} :
           lastCall' = [lastCall EXCEPT
                           !.integrity_failures = failures,
                           !.raised = lastCall.strict_integrity /\ failures # {},
                           !.constructed = ~(lastCall.strict_integrity /\ failures # {})]
    /\ lastOp' = "__init__"
    /\ EngineUnchanged
    /\ UNCHANGED <<lastVeto, lastCheck, calls, pc, frame>>

\* a call of TripartiteAGI.verify_full_integrity
VerifyFullIntegrity ==
    /\ lastCall.op = "engine"
    /\ lastCall.constructed
    /\ lastCall' = [lastCall EXCEPT
                       !.integrity_failures = verify_full_integrity(lastCall.config)]
    /\ lastOp' = "verify_full_integrity"
    /\ EngineUnchanged
    /\ UNCHANGED <<lastVeto, lastCheck, calls, pc, frame>>

\* the intact configuration is written while the engine exists
Tamper ==
    /\ lastCall.op = "engine"
    /\ lastCall.constructed
    /\ lastCall.config = IntactConfig
    /\ \E config \in TamperedConfigs :
           lastCall' = [lastCall EXCEPT !.config = config]
    /\ lastOp' = "tamper"
    /\ EngineUnchanged
    /\ UNCHANGED <<lastVeto, lastCheck, calls, pc, frame>>

\* TripartiteAGI.process_sensor_update, with its integrity check
ProcessSensorUpdateChecked(sensor, responses) ==
    /\ lastCall.op = "engine"
    /\ lastCall.constructed
    /\ IF lastCall.strict_integrity /\ lastCall.integrity_failures # {}
       THEN /\ calls < MaxCalls
            /\ calls' = calls + 1
            /\ lastOp' = "IntegrityError"
            /\ EngineUnchanged
            /\ UNCHANGED <<lastVeto, lastCheck, lastCall, pc, frame>>
       ELSE ProcessSensorUpdate(sensor, responses)

NextIntegrity ==
    \/ Construct
    \/ VerifyFullIntegrity
    \/ Tamper
    \/ \E sensor \in SensorInputs, responses \in LLMResponses :
          ProcessSensorUpdateChecked(sensor, responses)

SpecIntegrity == InitIntegrity /\ [][NextIntegrity]_vars

-----------------------------------------------------------------------------
(* ConsciousLayer.update_from_outcome called directly, as the personality    *)
(* test does: a run of updates with quality 0.9 for proposer A and 0.2 for   *)
(* proposer B in any interleaving, and updates with arbitrary qualities      *)
(* before or after that run.  lastCall counts the calls and holds the        *)
(* aspect of the last update and the result of get_personality_profile when  *)
(* that was the last call.                                                   *)

\* the number of updates of each of the two proposers in the test run
UpdatesPerProposer == 50

\* the number of updates with arbitrary quality
MaxFreeUpdates == 2

\* qualities in hundredths: the band edges, their neighbours, and values
\* outside [0, 1]
FreeQualities == {-1000, 0, 29, 30, 49, 50, 51, 70, 71, 100, 1000}

InitPersonality ==
    /\ InitEngine
    /\ lastVeto = None
    /\ lastCheck = None
    /\ pc = <<>>
    /\ frame = <<>>
    /\ lastCall \in {[op |-> "personality", A |-> pair[1], B |-> pair[2],
                      nA |-> 0, nB |-> 0, free |-> 0, last |-> "", profile |-> None] :
                        pair \in {<<"GUARDIAN", "EXPLORER">>, <<"ANALYST", "EMPATH">>}}

\* ConsciousLayer.update_from_outcome(action of aspect a, {'quality': quality})
UpdateFromOutcome(a, quality) ==
    /\ \E learned \in {update_from_outcome(weights, confidence, a, quality)} :
           /\ weights' = learned.weights
           /\ confidence' = learned.confidence
    /\ lastOp' = "update_from_outcome"
    /\ UNCHANGED <<environment, entities, motor, halted, executed, rejected, violations,
                   tiebreaker_index, history, cycle_count, last_package, lastExec,
                   lastCycle, lastVeto, lastCheck, calls, pc, frame>>

\* one update of the test run
TestUpdate ==
    /\ lastCall.op = "personality"
    /\ lastCall.free = 0
    /\ \/ /\ lastCall.nA < UpdatesPerProposer
          /\ UpdateFromOutcome(lastCall.A, 90)
          /\ lastCall' = [lastCall EXCEPT !.nA = @ + 1, !.last = lastCall.A,
                                          !.profile = None]
       \/ /\ lastCall.nB < UpdatesPerProposer
          /\ UpdateFromOutcome(lastCall.B, 20)
          /\ lastCall' = [lastCall EXCEPT !.nB = @ + 1, !.last = lastCall.B,
                                          !.profile = None]

\* one update with an arbitrary quality, before or after the test run
FreeUpdate ==
    /\ lastCall.op = "personality"
    /\ lastCall.free < MaxFreeUpdates
    /\ lastCall.nA = lastCall.nB
    /\ lastCall.nA \in {0, UpdatesPerProposer}
    /\ \E a \in {lastCall.A, lastCall.B}, quality \in FreeQualities :
           /\ UpdateFromOutcome(a, quality)
           /\ lastCall' = [lastCall EXCEPT !.free = @ + 1, !.last = a, !.profile = None]

\* get_personality_profile: the weights as shares of their sum, in 1/10000
get_personality_profile(w) ==
    Let(w["GUARDIAN"] + w["ANALYST"] + w["OPTIMIZER"] + w["EMPATH"] + w["EXPLORER"]
            + w["PRAGMATIST"], LAMBDA total :
        [a \in Range(Aspects) |-> (w[a] * 10000) \div total])

\* a call of ConsciousLayer.get_personality_profile
GetPersonalityProfile ==
    /\ lastCall.op = "personality"
    /\ lastCall.profile = None
    /\ lastCall' = [lastCall EXCEPT !.profile = get_personality_profile(weights)]
    /\ lastOp' = "get_personality_profile"
    /\ UNCHANGED <<environment, entities, motor, halted, executed, rejected, violations,
                   weights, confidence, tiebreaker_index, history, cycle_count,
                   last_package, lastExec, lastCycle, lastVeto, lastCheck, calls, pc, frame>>

NextPersonality == TestUpdate \/ FreeUpdate \/ GetPersonalityProfile

SpecPersonality == InitPersonality /\ [][NextPersonality]_vars

\* WeightAdjustment as a function of the quality, in hundredths, over [0, 1]
InitAdjustment ==
    /\ InitEngine
    /\ lastVeto = None
    /\ lastCheck = None
    /\ pc = <<>>
    /\ frame = <<>>
    /\ lastCall \in {[op |-> "adjustment", done |-> FALSE, quality |-> q, result |-> 0] :
                        q \in 0..100}

Adjust ==
    /\ lastCall.op = "adjustment"
    /\ ~lastCall.done
    /\ lastCall' = [lastCall EXCEPT !.done = TRUE,
                                    !.result = WeightAdjustment(lastCall.quality)]
    /\ UNCHANGED <<environment, entities, motor, halted, executed, rejected, violations,
                   weights, confidence, tiebreaker_index, history, cycle_count,
                   last_package, lastExec, lastCycle, lastVeto, lastCheck, lastOp, calls,
                   pc, frame>>

SpecAdjustment == InitAdjustment /\ [][Adjust]_vars

-----------------------------------------------------------------------------
(* ConsciousLayer.resolve_votes called repeatedly on one layer.  lastCall    *)
(* holds the number of calls, the number of calls whose argument was a tie,  *)
(* and the argument, the index before and the result of the last call.      *)

MaxResolves == 8

Proposal(a, v) == [none |-> FALSE, aspect |-> a, description |-> "", commands |-> <<Wait>>,
                   rationale |-> "", vote_strength |-> v]

\* nothing permitted, a single survivor, clear winners, ties of two (one of them
\* with the lower vote first), of three, and of all six
PermittedLists ==
    {<<>>,
     <<Proposal("EMPATH", 8000000)>>,
     <<Proposal("GUARDIAN", 5000000), Proposal("ANALYST", 9000000)>>,
     <<Proposal("GUARDIAN", 9000000), Proposal("ANALYST", 7400000),
       Proposal("EXPLORER", 1000000)>>,
     <<Proposal("GUARDIAN", 9000000), Proposal("ANALYST", 7600000)>>,
     <<Proposal("EXPLORER", 6000000), Proposal("OPTIMIZER", 6000000),
       Proposal("EMPATH", 5900000)>>,
     <<Proposal("EXPLORER", 5900000), Proposal("OPTIMIZER", 6000000)>>,
     [i \in 1..6 |-> Proposal(Aspects[i], 5000000)]}

\* two or more proposals of the argument are within TIE_THRESHOLD of its top vote
TieCall(permitted) ==
    Cardinality({i \in 1..Len(permitted) :
                    \A j \in 1..Len(permitted) :
                        permitted[j].vote_strength - permitted[i].vote_strength
                            <= TIE_THRESHOLD}) >= 2

InitResolve ==
    /\ InitEngine
    /\ lastVeto = None
    /\ lastCheck = None
    /\ pc = <<>>
    /\ frame = <<>>
    /\ lastCall = [op |-> "resolve_votes", n |-> 0, ties |-> 0, permitted |-> <<>>,
                   before |-> 0, selected |-> None]

ResolveVotes(permitted) ==
    /\ lastCall.op = "resolve_votes"
    /\ lastCall.n < MaxResolves
    /\ \E res \in {resolve_votes(permitted, tiebreaker_index)} :
           /\ tiebreaker_index' = res.tiebreaker_index
           /\ lastCall' = [lastCall EXCEPT
                              !.n = @ + 1,
                              !.ties = IF TieCall(permitted) THEN @ + 1 ELSE @,
                              !.permitted = permitted,
                              !.before = tiebreaker_index,
                              !.selected = res.selected]
    /\ lastOp' = "resolve_votes"
    /\ UNCHANGED <<environment, entities, motor, halted, executed, rejected, violations,
                   weights, confidence, history, cycle_count, last_package, lastExec,
                   lastCycle, lastVeto, lastCheck, calls, pc, frame>>

NextResolve == \E permitted \in PermittedLists : ResolveVotes(permitted)

SpecResolve == InitResolve /\ [][NextResolve]_vars

-----------------------------------------------------------------------------
(* Runs of tie resolutions by one ConsciousLayer.  lastCall holds the number *)
(* of calls, the proposers tied in the last tie resolution, and the winners  *)
(* of the last tie resolutions, at most six of them, for as long as the same *)
(* proposers were tied; calls without a tie leave both as they are.          *)

MaxRunCalls == 11

WindowLen == Len(TIEBREAKER_ORDER)

\* clear winners, and ties of two (in both input orders and with unequal
\* votes), of three, and of two with a third proposal that is not tied
RunLists ==
    {<<Proposal("GUARDIAN", 5000000), Proposal("ANALYST", 9000000)>>,
     <<Proposal("EXPLORER", 6000000), Proposal("OPTIMIZER", 6000000)>>,
     <<Proposal("OPTIMIZER", 6000000), Proposal("EXPLORER", 5900000)>>,
     <<Proposal("EMPATH", 3000000), Proposal("OPTIMIZER", 7000000),
       Proposal("EXPLORER", 7000000)>>,
     <<Proposal("GUARDIAN", 8000000), Proposal("EXPLORER", 8100000)>>,
     <<Proposal("PRAGMATIST", 5000000), Proposal("EMPATH", 5000000),
       Proposal("ANALYST", 4900000)>>}

\* the proposers of the argument that are within TIE_THRESHOLD of its top vote
TiedProposers(permitted) ==
    {permitted[i].aspect : i \in {i \in 1..Len(permitted) :
        \A j \in 1..Len(permitted) :
            permitted[j].vote_strength - permitted[i].vote_strength <= TIE_THRESHOLD}}

LastOf(seq, n) == IF Len(seq) <= n THEN seq ELSE SubSeq(seq, Len(seq) - n + 1, Len(seq))

InitRun ==
    /\ InitEngine
    /\ lastVeto = None
    /\ lastCheck = None
    /\ pc = <<>>
    /\ frame = <<>>
    /\ lastCall = [op |-> "resolve_votes", n |-> 0, tied |-> {}, winners |-> <<>>,
                   permitted |-> <<>>]

ResolveRun(permitted) ==
    /\ lastCall.op = "resolve_votes"
    /\ lastCall.n < MaxRunCalls
    /\ \E res \in {resolve_votes(permitted, tiebreaker_index)} :
       \E tied \in {TiedProposers(permitted)} :
           /\ tiebreaker_index' = res.tiebreaker_index
           /\ lastCall' =
                  IF ~TieCall(permitted)
                  THEN [lastCall EXCEPT !.n = @ + 1, !.permitted = permitted]
                  ELSE [lastCall EXCEPT
                           !.n = @ + 1,
                           !.permitted = permitted,
                           !.tied = tied,
                           !.winners = IF tied = lastCall.tied
                                       THEN LastOf(Append(@, res.selected.aspect),
                                                   WindowLen)
                                       ELSE <<res.selected.aspect>>]
    /\ lastOp' = "resolve_votes"
    /\ UNCHANGED <<environment, entities, motor, halted, executed, rejected, violations,
                   weights, confidence, history, cycle_count, last_package, lastExec,
                   lastCycle, lastVeto, lastCheck, calls, pc, frame>>

NextRun == \E permitted \in RunLists : ResolveRun(permitted)

SpecRun == InitRun /\ [][NextRun]_vars

-----------------------------------------------------------------------------
(* SubconsciousLayer._retrieve_relevant_history on a layer with the default  *)
(* history_size, which the stored incidents of this specification never      *)
(* reach.  Similarity scores are in 1/ScoreOne, severities in 1/SevOne.      *)
(* lastCall holds the stored incidents, oldest first, and the argument and   *)
(* the result of the last retrieval.                                         *)

MaxStored == 6

ScoreOne == 6 * SevOne

MIN_SIMILARITY == ScoreOne \div 5

MAX_RESULTS == 5

Abs(x) == IF x < 0 THEN -x ELSE x

EntityTypesOf(impetus) ==
    {impetus.entities[i].entity_type : i \in 1..Len(impetus.entities)}

_predict_emotion_category(impetus) ==
    IF "REDUCE_HARM" \in impetus.drives
    THEN IF impetus.severity > HighSeverity THEN "FEAR" ELSE "CONCERN"
    ELSE IF "UNDERSTAND" \in impetus.drives THEN "ANXIETY"
    ELSE "CAUTION"

_compute_similarity(current, past_record) ==
    LET past == past_record.impetus
        current_types == EntityTypesOf(current)
        past_types == EntityTypesOf(past)
        trigger == IF current.trigger_type = past.trigger_type
                   THEN ScoreOne \div 4 ELSE 0
        drives == IF current.drives # {} /\ past.drives # {}
                  THEN ((ScoreOne \div 4) * Cardinality(current.drives \cap past.drives))
                           \div Cardinality(current.drives \cup past.drives)
                  ELSE 0
        severity == (6 * (SevOne - Min(Abs(current.severity - past.severity), SevOne)))
                        \div 5
        types == IF current_types # {} /\ past_types # {}
                 THEN ((ScoreOne \div 5) * Cardinality(current_types \cap past_types))
                          \div Cardinality(current_types \cup past_types)
                 ELSE IF current_types = {} /\ past_types = {} THEN ScoreOne \div 5
                 ELSE 0
        emotion == IF past_record.emotional_value = _predict_emotion_category(current)
                   THEN ScoreOne \div 10 ELSE 0
    IN  trigger + drives + severity + types + emotion

\* scored_incidents.sort(key = score, reverse = True), which is stable
SortByScore(scored) ==
    LET before(i) == {j \in 1..Len(scored) :
                        \/ scored[j].score > scored[i].score
                        \/ scored[j].score = scored[i].score /\ j < i}
    IN  [k \in 1..Len(scored) |->
            scored[CHOOSE i \in 1..Len(scored) : Cardinality(before(i)) = k - 1]]

\* a retrieval that returns the most recent incidents, latest first
_retrieve_relevant_history_recent(impetus, incident_history) ==
    LET n == Len(incident_history)
    IN  [k \in 1..Min(n, MAX_RESULTS) |-> incident_history[n + 1 - k]]

_retrieve_relevant_history(impetus, incident_history) ==
    Let([i \in 1..Len(incident_history) |->
            [score |-> _compute_similarity(impetus, incident_history[i]),
             incident |-> incident_history[i]]], LAMBDA scored_incidents :
    Let(SortByScore(scored_incidents), LAMBDA sorted :
    Let(SubSeq(sorted, 1, Min(Len(sorted), MAX_RESULTS)), LAMBDA top :
        LET kept == SelectSeq(top, LAMBDA x : x.score >= MIN_SIMILARITY)
        IN  [k \in 1..Len(kept) |-> kept[k].incident])))

HistoryImpetus(trigger_type, drives, severity, types) ==
    [trigger_type |-> trigger_type, drives |-> drives, severity |-> severity,
     entities |-> [i \in 1..Len(types) |-> [entity_type |-> types[i]]]]

StoredIncident(timestamp, impetus, emotion) ==
    [timestamp |-> timestamp, impetus |-> impetus, emotional_value |-> emotion]

\* the impetus of run_tests, and one with two drives and a human
CurrentImpetuses ==
    {HistoryImpetus("conflict", {"REDUCE_HARM"}, 700000, <<>>),
     HistoryImpetus("conflict", {"REDUCE_HARM", "UNDERSTAND"}, 500000, <<"HUMAN">>)}

\* the similar and the dissimilar record of run_tests (the dissimilar one more
\* recent), an old record of the same kind with a human, and a recent one that
\* has nothing in common with the current impetuses
StoredIncidents ==
    {StoredIncident(1, HistoryImpetus("conflict", {"REDUCE_HARM"}, 600000, <<>>), "FEAR"),
     StoredIncident(2, HistoryImpetus("uncertainty", {"UNDERSTAND"}, 200000, <<>>),
                    "CAUTION"),
     StoredIncident(0, HistoryImpetus("conflict", {"REDUCE_HARM"}, 700000, <<"HUMAN">>),
                    "CONCERN"),
     StoredIncident(3, HistoryImpetus("uncertainty", {"IMPROVE"}, 0, <<"ANIMAL">>),
                    "CURIOSITY")}

InitHistory ==
    /\ InitEngine
    /\ lastVeto = None
    /\ lastCheck = None
    /\ pc = <<>>
    /\ frame = <<>>
    /\ lastCall = [op |-> "_retrieve_relevant_history", incident_history |-> <<>>,
                   done |-> FALSE, impetus |-> None, result |-> <<>>]

\* _incident_history.append
StoreIncident(record) ==
    /\ lastCall.op = "_retrieve_relevant_history"
    /\ Len(lastCall.incident_history) < MaxStored
    /\ lastCall' = [lastCall EXCEPT
                       !.incident_history = Append(@, record),
                       !.done = FALSE, !.impetus = None, !.result = <<>>]
    /\ lastOp' = "append"
    /\ UNCHANGED <<environment, entities, motor, halted, executed, rejected, violations,
                   weights, confidence, tiebreaker_index, history, cycle_count,
                   last_package, lastExec, lastCycle, lastVeto, lastCheck, calls, pc,
                   frame>>

RetrieveRelevantHistory(impetus) ==
    /\ lastCall.op = "_retrieve_relevant_history"
    /\ lastCall' = [lastCall EXCEPT
                       !.done = TRUE, !.impetus = impetus,
                       !.result = _retrieve_relevant_history(impetus,
                                                             lastCall.incident_history)]
    /\ lastOp' = "_retrieve_relevant_history"
    /\ UNCHANGED <<environment, entities, motor, halted, executed, rejected, violations,
                   weights, confidence, tiebreaker_index, history, cycle_count,
                   last_package, lastExec, lastCycle, lastVeto, lastCheck, calls, pc,
                   frame>>

NextHistory ==
    \/ \E record \in StoredIncidents : StoreIncident(record)
    \/ \E impetus \in CurrentImpetuses : RetrieveRelevantHistory(impetus)

SpecHistory == InitHistory /\ [][NextHistory]_vars

-----------------------------------------------------------------------------
(* TripartiteAGI._parse_entity_type as a function: lastCall holds the raw    *)
(* type and, after the call, the EntityType returned.                        *)

MaxTypeLen == 3

\* None and a number; the empty string and blanks; listed names as they are, in
\* capitals, with separators and in a compound; words that are not listed; and
\* every string of up to MaxTypeLen of the letters m, e, n, o
RawTypes ==
    {[kind |-> "none"], [kind |-> "number"]}
    \cup {Str(cs) : cs \in
           {<<>>, <<" ">>,
            <<"H", "U", "M", "A", "N">>,
            <<"h", "u", "m", "n">>,
            <<"d", "o", "g">>,
            <<" ", "D", "o", "g", "_">>,
            <<"h", "u", "m", "a", "n", "_", "w", "o", "r", "k", "e", "r">>,
            <<"g", "u", "a", "r", "d", "-", "d", "o", "g">>,
            <<"x", "y", "z", "1", "2", "3">>,
            <<"u", "n", "k", "n", "o", "w", "n">>,
            <<"w", "o", "m", "e", "n">>,
            <<"c", "u", "s", "t", "o", "m", "e", "r">>,
            <<"c", "a", "m", "e", "r", "a">>,
            <<"p", "a", "t", "i", "e", "n", "t">>}}
    \cup {Str(cs) : cs \in UNION {[1..n -> {"m", "e", "n", "o"}] : n \in 1..MaxTypeLen}}

InitParse ==
    /\ InitEngine
    /\ lastVeto = None
    /\ lastCheck = None
    /\ pc = <<>>
    /\ frame = <<>>
    /\ lastCall \in {[op |-> "_parse_entity_type", done |-> FALSE, raw_type |-> r,
                      result |-> ""] : r \in RawTypes}

ParseEntityType ==
    /\ lastCall.op = "_parse_entity_type"
    /\ ~lastCall.done
    /\ lastCall' = [lastCall EXCEPT !.done = TRUE,
                                    !.result = _parse_entity_type(lastCall.raw_type)]
    /\ lastOp' = "_parse_entity_type"
    /\ UNCHANGED <<environment, entities, motor, halted, executed, rejected, violations,
                   weights, confidence, tiebreaker_index, history, cycle_count,
                   last_package, lastExec, lastCycle, lastVeto, lastCheck, calls, pc,
                   frame>>

NextParse == ParseEntityType

SpecParse == InitParse /\ [][NextParse]_vars

-----------------------------------------------------------------------------
(* UnconsciousLayer.monitor as a function of the world state: lastCall holds *)
(* the detected entities and the environment, the layer's count of triggers  *)
(* and, after the call, the Impetus or None.                                 *)

\* humans near a hazard at several danger levels and confidences, in distress,
\* asking for help or able to benefit from help, a calm human seen poorly, and
\* animals in danger
MonitorEntities ==
    {[BlankEntity EXCEPT !.id = "human_1", !.near_hazard = TRUE, !.danger = d, !.conf = c] :
        d \in {10, 30, 40, 50}, c \in {100, 90, 50}}
    \cup {[BlankEntity EXCEPT !.id = "human_1", !.distress = d] : d \in {30, 40, 60}}
    \cup {[BlankEntity EXCEPT !.id = "human_1", !.requesting_help = TRUE],
          [BlankEntity EXCEPT !.id = "human_1", !.benefit = TRUE, !.conf = 90],
          [BlankEntity EXCEPT !.id = "human_1", !.benefit = TRUE, !.conf = 60],
          [BlankEntity EXCEPT !.id = "human_2", !.conf = 40],
          [BlankEntity EXCEPT !.id = "human_2", !.conf = 100]}
    \cup {[BlankEntity EXCEPT !.id = "dog_1", !.etype = "ANIMAL", !.desc = "dog",
                              !.in_danger = TRUE, !.danger = d] : d \in {50, 80}}

MonitorScenes ==
    {[ents |-> ents, env |-> [BaseEnvironment EXCEPT !.uncertainty = u]] :
        ents \in {<<>>} \cup {<<e>> : e \in MonitorEntities}, u \in {0, 50, 100}}

InitMonitor ==
    /\ InitEngine
    /\ lastVeto = None
    /\ lastCheck = None
    /\ pc = <<>>
    /\ frame = <<>>
    /\ lastCall \in {[op |-> "monitor", done |-> FALSE, ents |-> sc.ents, env |-> sc.env,
                      triggers_detected |-> 0, result |-> None] : sc \in MonitorScenes}

Monitor ==
    /\ lastCall.op = "monitor"
    /\ ~lastCall.done
    /\ \E impetus \in {monitor(lastCall.ents, lastCall.env)} :
           lastCall' = [lastCall EXCEPT
                           !.done = TRUE,
                           !.triggers_detected = IF impetus.none THEN @ ELSE @ + 1,
                           !.result = impetus]
    /\ lastOp' = "monitor"
    /\ UNCHANGED <<environment, entities, motor, halted, executed, rejected, violations,
                   weights, confidence, tiebreaker_index, history, cycle_count,
                   last_package, lastExec, lastCycle, lastVeto, lastCheck, calls, pc,
                   frame>>

NextMonitor == Monitor

SpecMonitor == InitMonitor /\ [][NextMonitor]_vars

-----------------------------------------------------------------------------
(* UndeliberableRegistry._check_lethal_action as a function: lastCall holds  *)
(* the command list, the detected entities and the environment and, after    *)
(* the call, the estimate in 1/10000.                                        *)

LethalCommands ==
    {<<Wait>>,
     <<Move(<<20, 0>>, 15)>>,
     <<Move(<<50, 50>>, 5)>>,
     <<Manipulate("lift", "box", 4)>>,
     <<Manipulate("grasp", "human_1", 2)>>,
     <<Manipulate("push", "human_1", 10)>>,
     <<Alert(3, "human_1"), Manipulate("push", "human_1", 5)>>}

\* one human, or two, at several detection confidences
LethalEntities ==
    {<<[Adult EXCEPT !.conf = c]>> : c \in {0, 50, 69, 70, 100}}
    \cup {<<[Adult EXCEPT !.conf = c], [CalmHuman EXCEPT !.etype = "HUMAN", !.conf = d]>> :
             c \in {50, 100}, d \in {50, 100}}

LethalEnvironments ==
    {[BaseEnvironment EXCEPT !.hazards = h, !.uncertainty = u] :
        h \in {{}, {"machinery", "heights"}}, u \in {0, 30, 31, 50, 100}}

InitLethal ==
    /\ InitEngine
    /\ lastVeto = None
    /\ lastCheck = None
    /\ pc = <<>>
    /\ frame = <<>>
    /\ lastCall \in {[op |-> "_check_lethal_action", done |-> FALSE, cmds |-> c,
                      ents |-> e, env |-> v, probability |-> 0] :
                        c \in LethalCommands, e \in LethalEntities,
                        v \in LethalEnvironments}

CheckLethalAction ==
    /\ lastCall.op = "_check_lethal_action"
    /\ ~lastCall.done
    /\ lastCall' = [lastCall EXCEPT
                       !.done = TRUE,
                       !.probability = _check_lethal_action(lastCall.cmds, lastCall.ents,
                                                            lastCall.env)]
    /\ lastOp' = "_check_lethal_action"
    /\ UNCHANGED <<environment, entities, motor, halted, executed, rejected, violations,
                   weights, confidence, tiebreaker_index, history, cycle_count,
                   last_package, lastExec, lastCycle, lastVeto, lastCheck, calls, pc,
                   frame>>

NextLethal == CheckLethalAction

SpecLethal == InitLethal /\ [][NextLethal]_vars

-----------------------------------------------------------------------------
(* Properties of the engine *)

LastRecord == history[Len(history)]

Vetoed(p, impetus) == evaluate_for_veto(p, impetus).vetoed

\* C1: in every deliberation cycle the proposal resolve_votes returns, and the
\* command list handed to execute_commands, belong to a proposal of that cycle
\* that evaluate_for_veto does not veto; nothing is executed when nothing is
\* selected; and the cycle's IncidentRecord keeps all six proposals, the vetoed
\* ones included.
C1_VetoedNeverSelected ==
    lastCycle.ran =>
        /\ ~lastCycle.selected.none =>
              /\ \E i \in 1..Len(lastCycle.proposals) :
                     lastCycle.proposals[i] = lastCycle.selected
              /\ ~Vetoed(lastCycle.selected, lastCycle.impetus)
              /\ lastCycle.exec.called
              /\ lastCycle.exec.cmds = lastCycle.selected.commands
        /\ lastCycle.selected.none => ~lastCycle.exec.called
        /\ LastRecord.cycle = lastCycle.cycle
        /\ LastRecord.proposals = lastCycle.proposals
        /\ Len(LastRecord.proposals) = Len(Aspects)

\* a cycle in which the proposal with the strongest vote was vetoed, another one
\* was selected and executed, and the record holds the vetoed proposal
C1_Witness ==
    /\ lastCycle.ran
    /\ ~lastCycle.selected.none
    /\ lastCycle.exec.called
    /\ lastCycle.exec.result.success
    /\ \E i \in 1..Len(LastRecord.proposals) :
          /\ Vetoed(LastRecord.proposals[i], lastCycle.impetus)
          /\ LastRecord.proposals[i].vote_strength
                > lastCycle.selected.vote_strength + TIE_THRESHOLD

\* C2: an execute_commands call made with an override flag set (and the engine
\* not yet halted) returns a blocked, halted result and sets the halt flag; every
\* call made while the halt flag is set is rejected and changes nothing; and the
\* halt flag, once set, stays set over every operation other than clear_halt,
\* process_sensor_update included.
C2_HaltSticky ==
    /\ [](lastExec.called =>
            /\ (~lastExec.pre.halted /\ _check_human_override(lastExec.pre.environment))
                  => /\ lastExec.result.blocked
                     /\ lastExec.result.halted
                     /\ ~lastExec.result.success
                     /\ lastExec.post.halted
                     /\ lastExec.post.executed = lastExec.pre.executed
            /\ lastExec.pre.halted
                  => /\ lastExec.result.blocked
                     /\ ~lastExec.result.success
                     /\ lastExec.result.results = <<>>
                     /\ lastExec.post = lastExec.pre)
    /\ [][(halted /\ lastOp' # "clear_halt") => halted']_vars

\* a call rejected because of a halt set earlier, after the override flag was
\* withdrawn, for a command list that is valid and violates nothing
C2_Witness ==
    /\ lastOp = "execute_commands"
    /\ lastExec.pre.halted
    /\ halted
    /\ ~_check_human_override(environment)
    /\ \A i \in 1..Len(lastExec.cmds) : validate_command(lastExec.cmds[i])
    /\ check_all(lastExec.cmds, entities, environment) = "none"

\* C3: when check_all reports a violation for the command list of an
\* execute_commands call, the call executes nothing (executed counter and motor
\* position unchanged), validates nothing (rejected counter unchanged, no
\* per-command results), appends exactly one violation record, and returns blocked.
C3_ViolationBlocksAll ==
    (/\ lastExec.called
     /\ ~lastExec.pre.halted
     /\ check_all(lastExec.cmds, lastExec.pre.entities, lastExec.pre.environment) # "none")
    => /\ lastExec.post.executed = lastExec.pre.executed
       /\ lastExec.post.motor.position = lastExec.pre.motor.position
       /\ lastExec.post.rejected = lastExec.pre.rejected
       /\ lastExec.post.violations
             = Append(lastExec.pre.violations,
                      check_all(lastExec.cmds, lastExec.pre.entities,
                                lastExec.pre.environment))
       /\ lastExec.result.blocked
       /\ ~lastExec.result.success
       /\ lastExec.result.results = <<>>

\* a blocked call whose list holds a command that violates and a command that
\* is invalid
C3_Witness ==
    /\ lastExec.called
    /\ ~lastExec.pre.halted
    /\ check_all(lastExec.cmds, lastExec.pre.entities, lastExec.pre.environment)
          = "lethal_action"
    /\ \E i \in 1..Len(lastExec.cmds) : ~validate_command(lastExec.cmds[i])
    /\ \E i \in 1..Len(lastExec.cmds) : validate_command(lastExec.cmds[i])
    /\ lastExec.result.blocked

\* C4 as stated: when the immediate halt fires at the execution step of a cycle,
\* the cycle's IncidentRecord has no selected action, nothing is executed, and
\* the proposals are discarded (no aspect learns from the outcome).
C4_HaltedCycleRecordsNone ==
    (lastCycle.ran /\ lastCycle.exec.called /\ lastCycle.exec.result.halted)
    => /\ LastRecord.cycle = lastCycle.cycle
       /\ LastRecord.selected_action.none
       /\ lastCycle.exec.post.executed = lastCycle.exec.pre.executed

\* C5: the history holds exactly one record for each of the last
\* min(cycle_count, HistorySize) cycles, oldest first.
C5_HistoryIsLastCycles ==
    /\ Len(history) = Min(cycle_count, HistorySize)
    /\ \A i \in 1..Len(history) : history[i].cycle = cycle_count - Len(history) + i

\* more cycles than the capacity, the oldest evicted, and the history holding
\* both a cycle that selected nothing and a cycle whose execution was blocked
C5_Witness ==
    /\ cycle_count > HistorySize
    /\ Len(history) = HistorySize
    /\ history[1].cycle = cycle_count - HistorySize + 1
    /\ \E i \in 1..Len(history) : history[i].selected_action.none
    /\ lastCycle.ran /\ lastCycle.exec.called /\ lastCycle.exec.result.blocked

\* C6: two deliberation cycles on one engine instance never overlap: between
\* the start of a process_sensor_update call and the append of its
\* IncidentRecord no other process_sensor_update call reads or writes the
\* personality weights, the tiebreaker index, the incident history or the halt
\* flag.
C6_NoOverlap ==
    \A t \in Callers : pc[t] # "idle" => ~frame[t].intruded

\* C7 as stated: in every cycle, check_all is applied to a proposal's commands
\* before evaluate_for_veto scores that proposal.
C7_CheckBeforeScoring ==
    lastCycle.ran =>
        \A i \in 1..Len(lastCycle.steps) :
            lastCycle.steps[i].op = "evaluate_for_veto" =>
                \E j \in 1..(i - 1) :
                    /\ lastCycle.steps[j].op = "check_all"
                    /\ lastCycle.steps[j].aspect = lastCycle.steps[i].aspect

-----------------------------------------------------------------------------
(* Properties of check_all *)

Fires(name, cmds, ents, env) ==
    CASE name = "human_override" -> _check_human_override(env)
      [] name = "lethal_action" ->
            _check_lethal_action(cmds, ents, env) > LETHAL_PROBABILITY_THRESHOLD
      [] name = "child_harm" -> _check_child_harm(cmds, ents)
      [] name = "weapon_assistance" -> _check_weapon_assistance(cmds, ents)
      [] name = "identity_deception" -> _check_identity_deception(cmds, env)

Priority == <<"human_override", "lethal_action", "child_harm", "weapon_assistance",
              "identity_deception">>

\* C8: check_all returns the first predicate that fires in the order human
\* override, lethal action, child harm, weapon assistance, identity deception,
\* and no violation exactly when none of the five fires; a set override flag
\* yields the human-override violation whatever else the commands trigger.
C8_FirstInPriorityOrder ==
    lastCheck.done =>
        LET fires(k) == Fires(Priority[k], lastCheck.cmds, lastCheck.ents, lastCheck.env)
        IN  /\ lastCheck.verdict = "none" <=> \A k \in 1..Len(Priority) : ~fires(k)
            /\ \A k \in 1..Len(Priority) :
                  lastCheck.verdict = Priority[k] <=>
                      (fires(k) /\ \A j \in 1..(k - 1) : ~fires(j))
            /\ _check_human_override(lastCheck.env) =>
                  /\ lastCheck.verdict = "human_override"
                  /\ ResponseOf(lastCheck.verdict) = "halt"

\* an override flag together with a lethal command: the override wins
C8_Witness ==
    /\ lastCheck.done
    /\ _check_human_override(lastCheck.env)
    /\ Fires("lethal_action", lastCheck.cmds, lastCheck.ents, lastCheck.env)
    /\ lastCheck.verdict = "human_override"

-----------------------------------------------------------------------------
(* Properties of evaluate_for_veto *)

\* C9: evaluate_for_veto vetoes exactly when the net harm (the largest
\* per-dimension harm minus the reductions of the applied exceptions, floored at
\* 0) is greater than 0.40, or some per-dimension harm is greater than 0.50 and
\* no exception was applied.
C9_VetoIffOverThreshold ==
    lastVeto.done =>
        LET ha == lastVeto.decision.harm_assessment
            net == Max(0, SetMax({ha.by_dimension[d] : d \in Dims})
                          - SumReductions(ha.exceptions_applied))
        IN  /\ ha.net_harm = net
            /\ lastVeto.decision.vetoed <=>
                  \/ net > VETO_THRESHOLD
                  \/ /\ \E d \in Dims : ha.by_dimension[d] > 100000000
                     /\ ha.exceptions_applied = {}

\* a proposal whose net harm is exactly 0.40 and which is not vetoed
C9_Witness ==
    /\ lastVeto.done
    /\ lastVeto.decision.harm_assessment.net_harm = VETO_THRESHOLD
    /\ ~lastVeto.decision.vetoed

\* the scenario of C10: one adult human without consent, refusal, in-care or
\* vulnerability flags, no conflict above 0.6, no necessity or harm keyword
PlainScenario(action, impetus) ==
    /\ Len(impetus.entities) = 1
    /\ _get_effective_entity_type(impetus.entities[1]) = "HUMAN"
    /\ ~impetus.entities[1].consented /\ ~impetus.entities[1].refused
    /\ ~impetus.entities[1].in_care /\ ~impetus.entities[1].requested_help
    /\ ~impetus.entities[1].vulnerable
    /\ \A i \in 1..Len(impetus.conflicts) : impetus.conflicts[i].severity <= HighSeverity
    /\ ~Has(action.rationale, {"prevent", "protect", "save", "harm", "hurt"})

\* C10: in that scenario a proposal whose only command is MANIPULATE push with
\* force 15 is vetoed, and one whose only command is SPEAK at volume 0.5 is not.
C10_PushVetoedSpeakNot ==
    (lastVeto.done /\ PlainScenario(lastVeto.action, lastVeto.impetus)) =>
        /\ (/\ Len(lastVeto.action.commands) = 1
            /\ lastVeto.action.commands[1].type = "MANIPULATE"
            /\ lastVeto.action.commands[1].action = "push"
            /\ lastVeto.action.commands[1].force = 15)
           => lastVeto.decision.vetoed
        /\ (/\ Len(lastVeto.action.commands) = 1
            /\ lastVeto.action.commands[1].type = "SPEAK"
            /\ lastVeto.action.commands[1].volume = 5)
           => ~lastVeto.decision.vetoed

\* the push of force 15 evaluated in the plain scenario, and vetoed
C10_Witness ==
    /\ lastVeto.done
    /\ PlainScenario(lastVeto.action, lastVeto.impetus)
    /\ lastVeto.action.commands = <<Manipulate("push", "", 15)>>
    /\ lastVeto.decision.vetoed
    /\ lastVeto.decision.harm_assessment.exceptions_applied = {}

-----------------------------------------------------------------------------
(* Properties of calculate_harm *)

\* C11: calculate_harm returns gross_harm >= 0 and net_harm = max(0, gross_harm -
\* the sum of the exception reductions), hence 0 <= net_harm <= gross_harm; and
\* with a NECESSITY exception whose three requirements are met the net harm is
\* strictly lower than for the same inputs without exception whenever
\* gross_harm > 0.
C11_NetWithinGross ==
    (lastCall.op = "calculate_harm" /\ lastCall.done) =>
        LET a == lastCall.args
            r == lastCall.result
            met(exc) == exc \in DOMAIN a.exceptions /\ a.exceptions[exc] = 3
            reductions == (IF met("NECESSITY") THEN 240000000 ELSE 0)
                          + (IF met("INFORMED_CONSENT") THEN 200000000 ELSE 0)
                          + (IF met("PROPORTIONAL_DEFENSE") THEN 160000000 ELSE 0)
                          + (IF met("THERAPEUTIC") THEN 120000000 ELSE 0)
            plain == calculate_harm(a.dimension, a.severity, a.entity_type, a.context,
                                    NoExceptions)
            necessity == calculate_harm(a.dimension, a.severity, a.entity_type, a.context,
                                        [e \in {"NECESSITY"} |-> 3])
        IN  /\ r.gross_harm >= 0
            /\ r.net_harm = Max(0, r.gross_harm - reductions)
            /\ 0 <= r.net_harm /\ r.net_harm <= r.gross_harm
            /\ plain.gross_harm > 0 => necessity.net_harm < plain.net_harm

\* a call whose reductions exceed the gross harm (net harm floored at 0), and
\* whose gross harm is positive
C11_Witness ==
    /\ lastCall.op = "calculate_harm" /\ lastCall.done
    /\ lastCall.result.gross_harm > 0
    /\ lastCall.result.exception_reduction > lastCall.result.gross_harm
    /\ lastCall.result.net_harm = 0

-----------------------------------------------------------------------------
(* Properties of the ontology checksum *)

\* C12: the checksum recomputed right after construction equals the stored one,
\* and after a write to a weight table (a severity weight, an entity modifier, a
\* context multiplier or an exception cap) the recomputed checksum differs from
\* the stored one: verify_integrity returns true only for an ontology whose
\* weight tables are those of construction.
C12_WeightChangeDetected ==
    (lastCall.op = "ontology" /\ lastCall.verified # None) =>
        /\ lastCall.mutations = 0 => lastCall.verified.ok
        /\ lastCall.verified.ok =>
               /\ lastCall.ontology.dimension_profiles
                      = GroundedHarmOntology.ontology.dimension_profiles
               /\ lastCall.ontology.entity_modifiers
                      = GroundedHarmOntology.ontology.entity_modifiers
               /\ lastCall.ontology.context_modifiers
                      = GroundedHarmOntology.ontology.context_modifiers
               /\ lastCall.ontology.exceptions = GroundedHarmOntology.ontology.exceptions

-----------------------------------------------------------------------------
(* Properties of the integrity verification *)

\* C13: in strict mode no cycle runs while an integrity failure exists (checksum
\* mismatch, an undeliberable set other than the five, a threshold out of
\* range): an engine exists only if its construction found no failure, and
\* every process_sensor_update call made while the configuration has a failure,
\* also one that arose after construction, raises IntegrityError and leaves
\* the engine state unchanged.
C13_NoCycleWhileFailure ==
    /\ [](lastCall.op = "engine" =>
            /\ (lastCall.raised =>
                   lastCall.strict_integrity /\ verify_full_integrity(lastCall.config) # {})
            /\ (lastCall.strict_integrity /\ lastOp = "__init__" /\ lastCall.constructed =>
                   verify_full_integrity(lastCall.config) = {}))
    /\ [][(/\ lastCall.op = "engine"
           /\ lastCall.strict_integrity
           /\ verify_full_integrity(lastCall.config) # {}
           /\ calls' = calls + 1)
          => (/\ lastOp' = "IntegrityError"
              /\ EngineUnchanged)]_vars

-----------------------------------------------------------------------------
(* Properties of check_all on the test scenes *)

\* the call c has a MOVE at speed 1.5 whose target is at a squared distance
\* (in tenths of a metre) in dists from a detected human, hazards machinery and
\* heights, and no override flag
C14_MoveAtDistance(c, dists) ==
    /\ c.env.hazards = {"machinery", "heights"}
    /\ ~c.env.human_override /\ ~c.env.stop_commanded /\ ~c.env.emergency_stop
    /\ \E i \in 1..Len(c.cmds), j \in 1..Len(c.ents) :
           /\ c.cmds[i].type = "MOVE"
           /\ c.cmds[i].speed = 15
           /\ c.cmds[i].tpos # <<>>
           /\ c.ents[j].etype = "HUMAN"
           /\ DistSq(c.cmds[i].tpos, c.ents[j].pos) \in dists

C16_ChildBySpec(e) ==
    \/ e.etype = "CHILD"
    \/ Has(e.desc, {"child", "kid", "infant", "baby", "toddler", "minor",
                    "juvenile", "young", "boy", "girl"})
    \/ (e.age # -1 /\ e.age < 18)
    \/ (e.height # -1 /\ e.height < 120)

\* C15: when the scene holds a child and no other human, every command list
\* with a MANIPULATE whose target names the child is blocked by check_all, for
\* every force (0 included) and every action.
C15_ChildManipulationBlocked ==
    (/\ lastCheck.done
     /\ Len(lastCheck.ents) = 1
     /\ C16_ChildBySpec(lastCheck.ents[1])
     /\ \E i \in 1..Len(lastCheck.cmds) :
            /\ lastCheck.cmds[i].type = "MANIPULATE"
            /\ lastCheck.ents[1].id \in Sub(lastCheck.cmds[i].tname))
    => lastCheck.verdict # "none"

\* C16: _is_child holds of an entity whenever its type is CHILD, its description
\* has a child keyword, its age is below 18 or its height is below 1.2; every
\* entity of type CHILD is a child whatever its description, age and height.
C16_ChildByAnyCriterion ==
    lastCheck.done =>
        \A j \in 1..Len(lastCheck.ents) :
            /\ C16_ChildBySpec(lastCheck.ents[j]) => _is_child(lastCheck.ents[j])
            /\ lastCheck.ents[j].etype = "CHILD" => _is_child(lastCheck.ents[j])

-----------------------------------------------------------------------------
(* Properties of the personality weights *)

\* C17: from equal weights 1.0, after 50 updates with quality 0.9 for proposer
\* A and 50 with quality 0.2 for proposer B, in any interleaving, the weight of
\* A is above 1.0 and the weight of B below 1.0; and after every prefix of any
\* sequence of updates with any quality every weight is within [0.1, 5.0].
C17_WeightsDivergeWithinBounds ==
    lastCall.op = "personality" =>
        /\ (/\ lastCall.free = 0
            /\ lastCall.nA = UpdatesPerProposer
            /\ lastCall.nB = UpdatesPerProposer)
           => (weights[lastCall.A] > 10000 /\ weights[lastCall.B] < 10000)
        /\ \A a \in Range(Aspects) : MIN_WEIGHT <= weights[a] /\ weights[a] <= MAX_WEIGHT

\* the end of the test run, A at the upper and B at the lower bound, followed by
\* an update with a quality above 1
C17_Witness ==
    /\ lastCall.op = "personality"
    /\ lastCall.nA = UpdatesPerProposer /\ lastCall.nB = UpdatesPerProposer
    /\ lastCall.free > 0
    /\ weights[lastCall.A] = MAX_WEIGHT
    /\ weights[lastCall.B] = MIN_WEIGHT

\* C18: for every quality in [0, 1] the multiplier is in its band: 1.05 to 1.08
\* above 0.7, 1.01 to 1.05 in (0.5, 0.7], exactly 1.0 at 0.5, 0.92 to 0.98 in
\* [0.3, 0.5), 0.89 to 0.92 below 0.3; it is above 1 exactly when the quality
\* is above 0.5 and below 1 exactly when the quality is below 0.5.
C18_AdjustmentBands ==
    (lastCall.op = "adjustment" /\ lastCall.done) =>
        LET q == lastCall.quality
            m == lastCall.result
        IN  /\ q > 70 => (10500 <= m /\ m <= 10800)
            /\ (50 < q /\ q <= 70) => (10100 <= m /\ m <= 10500)
            /\ q = 50 => m = 10000
            /\ (30 <= q /\ q < 50) => (9200 <= m /\ m <= 9800)
            /\ q < 30 => (8900 <= m /\ m <= 9200)
            /\ (m > 10000) <=> (q > 50)
            /\ (m < 10000) <=> (q < 50)

\* the multiplier of quality 0.3, the lower edge of the moderate-failure band
C18_Witness ==
    /\ lastCall.op = "adjustment" /\ lastCall.done
    /\ lastCall.quality = 30
    /\ lastCall.result = 9740

-----------------------------------------------------------------------------
(* Properties of the rotating tiebreaker *)

C21_TiedPositions(ps) ==
    {i \in 1..Len(ps) :
        \A j \in 1..Len(ps) : ps[j].vote_strength - ps[i].vote_strength <= TIE_THRESHOLD}

\* the winner the claim describes for the argument ps and the tiebreaker tb, the
\* last case giving the tied proposal at position fallback
C21_Winner(ps, tb, fallback) ==
    LET tied == C21_TiedPositions(ps)
        order == <<tb>> \o aspect_affinity(tb)
        hits == {k \in 1..Len(order) : \E i \in tied : ps[i].aspect = order[k]}
        first == CHOOSE k \in hits : \A l \in hits : k <= l
    IN  IF ps = <<>> THEN None
        ELSE IF Len(ps) = 1 THEN ps[1]
        ELSE IF Cardinality(tied) = 1 THEN ps[CHOOSE i \in tied : TRUE]
        ELSE IF hits # {} THEN ps[CHOOSE i \in tied : ps[i].aspect = order[first]]
        ELSE ps[fallback]

\* C21 (as the code has it): resolve_votes returns None for an empty list, the
\* single proposal when one survives, the top proposal when it alone is within
\* 0.15 of the top vote, and otherwise among the tied proposals the
\* tiebreaker's own, else that of the earliest tied proposer of its affinity
\* list, else the first tied proposal in descending order of vote (input order
\* among equal votes); the winner is a member of the input list.
C21_WinnerByVoteOrder ==
    (lastCall.op = "resolve_votes" /\ lastCall.n > 0) =>
        LET ps == lastCall.permitted
            tied == C21_TiedPositions(ps)
            top == CHOOSE i \in tied :
                       \A j \in tied :
                           \/ ps[i].vote_strength > ps[j].vote_strength
                           \/ ps[i].vote_strength = ps[j].vote_strength /\ i <= j
        IN  /\ lastCall.selected
                   = C21_Winner(ps, TIEBREAKER_ORDER[lastCall.before + 1],
                                IF ps = <<>> THEN 0 ELSE top)
            /\ ps # <<>> => \E i \in 1..Len(ps) : ps[i] = lastCall.selected

\* a tie in which neither the tiebreaker nor one of its allies takes part, won
\* by the tied proposal with the higher vote, which is second in the input
C21_Witness ==
    /\ lastCall.op = "resolve_votes" /\ lastCall.n > 0
    /\ Len(lastCall.permitted) = 2
    /\ Cardinality(C21_TiedPositions(lastCall.permitted)) = 2
    /\ TIEBREAKER_ORDER[lastCall.before + 1] = "GUARDIAN"
    /\ lastCall.selected = lastCall.permitted[2]
    /\ lastCall.selected.aspect = "OPTIMIZER"

\* C21 (as the spec has it): the same with the last case giving the first tied
\* proposal of the input list.
C21_WinnerByInputOrder ==
    (lastCall.op = "resolve_votes" /\ lastCall.n > 0) =>
        LET ps == lastCall.permitted
            tied == C21_TiedPositions(ps)
        IN  lastCall.selected
                = C21_Winner(ps, TIEBREAKER_ORDER[lastCall.before + 1],
                             IF ps = <<>> THEN 0
                             ELSE CHOOSE i \in tied : \A j \in tied : i <= j)

\* C22: when the same two or more proposers were tied in the last six tie
\* resolutions, each of them won at least one of the six, so none won all six.
C22_EveryTiedProposerWins ==
    (lastCall.op = "resolve_votes" /\ Len(lastCall.winners) = WindowLen) =>
        /\ Cardinality(lastCall.tied) >= 2
        /\ \A a \in lastCall.tied :
               \E k \in 1..WindowLen : lastCall.winners[k] = a
        /\ \A a \in lastCall.tied :
               \E k \in 1..WindowLen : lastCall.winners[k] # a

\* six resolutions of the tie of OPTIMIZER and EXPLORER, the run starting with
\* a tiebreaker other than GUARDIAN and interrupted by a call without a tie
C22_Witness ==
    /\ lastCall.op = "resolve_votes"
    /\ Len(lastCall.winners) = WindowLen
    /\ lastCall.tied = {"OPTIMIZER", "EXPLORER"}
    /\ lastCall.n > WindowLen + 1
    /\ tiebreaker_index = 2
    /\ ~TieCall(lastCall.permitted)

\* the record has the trigger type and the drives of the impetus and a severity
\* within 0.2 of its severity
C23_Alike(current, record) ==
    /\ record.impetus.trigger_type = current.trigger_type
    /\ record.impetus.drives = current.drives
    /\ Abs(record.impetus.severity - current.severity) <= SevOne \div 5

\* the record has another trigger type and none of the drives of the impetus
C23_Unlike(current, record) ==
    /\ record.impetus.trigger_type # current.trigger_type
    /\ record.impetus.drives \cap current.drives = {}

\* C23: a retrieval returns at most 5 stored records, each with similarity at
\* least 0.2, in descending order of similarity; a stored record with the trigger
\* type, the drives and nearly the severity of the impetus has a strictly higher
\* similarity than a stored record with another trigger type and other drives,
\* and comes before it in every result that holds the latter, wherever the two
\* are in the history and whatever their timestamps.
C23_RetrievalRanksBySimilarity ==
    (lastCall.op = "_retrieve_relevant_history" /\ lastCall.done) =>
        LET current == lastCall.impetus
            stored == lastCall.incident_history
            result == lastCall.result
            score(r) == _compute_similarity(current, r)
        IN  /\ Len(result) <= 5
            /\ \A i \in 1..Len(result) :
                   /\ \E k \in 1..Len(stored) : stored[k] = result[i]
                   /\ 5 * score(result[i]) >= ScoreOne
                   /\ \A j \in i..Len(result) : score(result[i]) >= score(result[j])
            /\ \A a, b \in 1..Len(stored) :
                   (C23_Alike(current, stored[a]) /\ C23_Unlike(current, stored[b])) =>
                       /\ score(stored[a]) > score(stored[b])
                       /\ \A j \in 1..Len(result) :
                              result[j] = stored[b] =>
                                  \E i \in 1..(j - 1) : result[i] = stored[a]

\* six stored records, the first of them unlike the impetus and more recent than
\* the alike record stored after it: five are returned, the alike one first and
\* the unlike one last, and a record below 0.2 is left out
C23_Witness ==
    /\ lastCall.op = "_retrieve_relevant_history" /\ lastCall.done
    /\ Len(lastCall.incident_history) = 6
    /\ Len(lastCall.result) = 5
    /\ C23_Unlike(lastCall.impetus, lastCall.incident_history[1])
    /\ C23_Alike(lastCall.impetus, lastCall.incident_history[2])
    /\ lastCall.incident_history[1].timestamp > lastCall.incident_history[2].timestamp
    /\ lastCall.result[1] = lastCall.incident_history[2]
    /\ lastCall.result[5] = lastCall.incident_history[1]
    /\ \E k \in 1..6 :
           5 * _compute_similarity(lastCall.impetus, lastCall.incident_history[k])
               < ScoreOne

\* the cycle of lastCycle had six proposals and evaluate_for_veto vetoes each
C24_AllVetoed(cycle) ==
    /\ cycle.ran
    /\ Len(cycle.proposals) = Len(Aspects)
    /\ \A i \in 1..Len(cycle.proposals) : Vetoed(cycle.proposals[i], cycle.impetus)

\* C24: a process_sensor_update whose cycle has every proposal vetoed completes
\* as one cycle: nothing is executed, no weight, confidence or tiebreaker index
\* changes, the returned record has no selected action, and exactly one
\* IncidentRecord, with the six proposals, selected action None and outcome
\* quality 0.3, is appended to the history.
C24_AllVetoedCycleCompletes ==
    [][(lastOp' = "process_sensor_update" /\ calls' = calls + 1
            /\ C24_AllVetoed(lastCycle')) =>
          /\ cycle_count' = cycle_count + 1
          /\ lastCycle'.cycle = cycle_count'
          /\ lastCycle'.selected = None
          /\ ~lastCycle'.exec.called
          /\ <<motor, halted, executed, rejected, violations>>'
                 = <<motor, halted, executed, rejected, violations>>
          /\ <<weights, confidence, tiebreaker_index>>'
                 = <<weights, confidence, tiebreaker_index>>
          /\ Len(history') = Min(Len(history) + 1, HistorySize)
          /\ \A k \in 1..(Len(history') - 1) :
                 history'[k] = history[k + Len(history) + 1 - Len(history')]
          /\ history'[Len(history')].cycle = cycle_count'
          /\ history'[Len(history')].proposals = lastCycle'.proposals
          /\ history'[Len(history')].selected_action = None
          /\ history'[Len(history')].outcome.quality = 30]_vars

\* a cycle with every proposal vetoed, run after a cycle that executed an action
\* and changed its proposer's weight
C24_Witness ==
    /\ lastOp = "process_sensor_update"
    /\ C24_AllVetoed(lastCycle)
    /\ lastCycle.selected = None
    /\ cycle_count >= 2
    /\ \E a \in DOMAIN weights : weights[a] # 10000
    /\ history[Len(history)].selected_action = None
    /\ history[Len(history)].outcome.quality = 30

\* the raw type is a string that, normalized, is one of the keys of type_map
C25_Listed(raw_type) ==
    /\ raw_type.kind = "str"
    /\ \E i \in 1..Len(TYPE_MAP) : TYPE_MAP[i].key = Normalize(raw_type.chars)

\* C25: _parse_entity_type returns an EntityType for every raw type, and HUMAN
\* for every raw type that is missing, empty, not a string, or a string that
\* after normalization is not one of the listed names: such a type is never
\* mapped to SELF, ANIMAL, PROPERTY or another type than HUMAN.
C25_UnlistedIsHuman ==
    (lastCall.op = "_parse_entity_type" /\ lastCall.done) =>
        /\ lastCall.result \in {TYPE_MAP[i].etype : i \in 1..Len(TYPE_MAP)}
        /\ ~C25_Listed(lastCall.raw_type) => lastCall.result = "HUMAN"

\* the maximum severity over the conflicts monitor detects in the world state
\* of lastCall, 0 when there is none
C26_MaxSeverity ==
    LET conflicts == MonitorConflicts(lastCall.ents, lastCall.env)
    IN  SetMax({conflicts[i].severity : i \in 1..Len(conflicts)})

\* C26 (as the code has it): monitor emits an Impetus, carrying the maximum
\* severity, and counts a trigger if and only if the maximum severity over the
\* detected conflicts is at least 0.3; below 0.3 it returns None and counts
\* nothing.
C26_ImpetusFromThreshold ==
    (lastCall.op = "monitor" /\ lastCall.done) =>
        /\ ~lastCall.result.none <=> C26_MaxSeverity * 10 >= 3 * SevOne
        /\ ~lastCall.result.none =>
               /\ lastCall.result.severity = C26_MaxSeverity
               /\ lastCall.triggers_detected = 1
        /\ lastCall.result.none => lastCall.triggers_detected = 0

\* a human near a hazard of moderate danger, seen with full confidence: the
\* only conflict has severity 0.3, and an Impetus is emitted
C26_Witness ==
    /\ lastCall.op = "monitor" /\ lastCall.done
    /\ Len(MonitorConflicts(lastCall.ents, lastCall.env)) = 1
    /\ C26_MaxSeverity * 10 = 3 * SevOne
    /\ ~lastCall.result.none
    /\ lastCall.triggers_detected = 1

\* C26 (as the spec has it): monitor emits an Impetus if and only if the maximum
\* severity exceeds 0.3; at 0.3 or less it returns None and counts no trigger.
C26_ImpetusAboveThreshold ==
    (lastCall.op = "monitor" /\ lastCall.done) =>
        /\ ~lastCall.result.none <=> C26_MaxSeverity * 10 > 3 * SevOne
        /\ C26_MaxSeverity * 10 <= 3 * SevOne =>
               lastCall.result.none /\ lastCall.triggers_detected = 0

\* the entities with every human detected below 0.7 detected with certainty
C27_Certain(ents) ==
    [i \in 1..Len(ents) |->
        IF ents[i].etype = "HUMAN" /\ ents[i].conf < 70
        THEN [ents[i] EXCEPT !.conf = 100] ELSE ents[i]]

\* the environment with an uncertainty above 0.3 taken away
C27_Calm(env) == IF env.uncertainty > 30 THEN [env EXCEPT !.uncertainty = 0] ELSE env

\* C27: with at least one human detected, the estimate of _check_lethal_action
\* for a state with uncertainty (environment uncertainty above 0.3, or a human
\* detected with confidence below 0.7) is not lower than the estimate for the
\* same commands and the same state without the environment uncertainty,
\* without the low confidences, or without both.
C27_UncertaintyNeverLowers ==
    (lastCall.op = "_check_lethal_action" /\ lastCall.done
        /\ Humans(lastCall.ents) # <<>>) =>
        \A ents \in {lastCall.ents, C27_Certain(lastCall.ents)} :
        \A env \in {lastCall.env, C27_Calm(lastCall.env)} :
            lastCall.probability >= _check_lethal_action(lastCall.cmds, ents, env)

\* the record r holds the justification of the decision d
C28_Holds(r, d) ==
    /\ {"reasons", "violated_drives", "harm_assessment"} \subseteq DOMAIN r
    /\ r.reasons = d.reasons
    /\ r.violated_drives = d.violated_drives
    /\ r.harm_assessment = d.harm_assessment

\* C28: after a cycle, the justification (reasons, violated drives and harm
\* assessment) of the veto of each vetoed proposal of the cycle is held by the
\* state the engine keeps: the cycle's IncidentRecord, the proposals or the
\* outcome stored in it, or the last DeliberationPackage.
C28_VetoJustificationKept ==
    lastCycle.ran =>
        \A i \in 1..Len(lastCycle.proposals) :
            LET d == evaluate_for_veto(lastCycle.proposals[i], lastCycle.impetus)
            IN  d.vetoed =>
                   \/ C28_Holds(last_package, d)
                   \/ \E k \in 1..Len(history) :
                          /\ history[k].cycle = lastCycle.cycle
                          /\ \/ C28_Holds(history[k], d)
                             \/ C28_Holds(history[k].outcome, d)
                             \/ \E j \in 1..Len(history[k].proposals) :
                                    C28_Holds(history[k].proposals[j], d)

\* C29: every VetoDecision carries its justification: vetoed is true exactly
\* when the list of reasons is not empty; a vetoed decision lists REDUCE_HARM
\* exactly once in violated_drives; a permitted decision has no reasons and no
\* violated drives; and the harm assessment has its by-dimension scores, its
\* applied exceptions and its net harm in every decision.
C29_DecisionCarriesJustification ==
    lastVeto.done =>
        LET d == lastVeto.decision
        IN  /\ d.vetoed <=> d.reasons # <<>>
            /\ d.vetoed =>
                   Cardinality({i \in 1..Len(d.violated_drives) :
                                   d.violated_drives[i] = "REDUCE_HARM"}) = 1
            /\ ~d.vetoed => d.reasons = <<>> /\ d.violated_drives = <<>>
            /\ {"by_dimension", "exceptions_applied", "net_harm"}
                   \subseteq DOMAIN d.harm_assessment
            /\ d.harm_assessment.net_harm >= 0

\* a veto for which both rules fire: two reasons, REDUCE_HARM listed once
C29_Witness ==
    /\ lastVeto.done
    /\ lastVeto.decision.vetoed
    /\ Len(lastVeto.decision.reasons) >= 2
    /\ lastVeto.decision.reasons[1] = "net"
    /\ lastVeto.decision.violated_drives = <<"REDUCE_HARM">>

\* C30: the verdict of evaluate_for_veto is that of the single test net harm >
\* 0.40: the rule for a dimension harm above 0.50 with no exception applied
\* fires only when the net-harm rule fires too, since without an applied
\* exception the net harm is the maximum dimension harm.
C30_VerdictIsNetHarmTest ==
    lastVeto.done =>
        LET d == lastVeto.decision
            ha == d.harm_assessment
        IN  /\ d.vetoed <=> ha.net_harm > VETO_THRESHOLD
            /\ (\E i \in 1..Len(d.reasons) : d.reasons[i] # "net")
                   => d.reasons[1] = "net"
            /\ ha.exceptions_applied = {}
                   => ha.net_harm = SetMax({ha.by_dimension[dim] : dim \in Dims})
            /\ ha.net_harm <= VETO_THRESHOLD
                   => \/ ha.exceptions_applied # {}
                      \/ \A dim \in Dims : ha.by_dimension[dim] <= CAUTION_THRESHOLD * 2

\* a proposal with a dimension harm above 0.50 that an applied exception brings
\* to a net harm of at most 0.40: it is not vetoed
C30_Witness ==
    /\ lastVeto.done
    /\ \E dim \in Dims :
           lastVeto.decision.harm_assessment.by_dimension[dim] > CAUTION_THRESHOLD * 2
    /\ lastVeto.decision.harm_assessment.exceptions_applied # {}
    /\ lastVeto.decision.harm_assessment.net_harm <= VETO_THRESHOLD
    /\ ~lastVeto.decision.vetoed

====
